---- MODULE Spec2Model ----
(***************************************************************************)
(* A model of sdxlib's SDXClient (src/sdxlib/sdx_client.py): the validated *)
(* request attributes, the constructor, the property setters, the five     *)
(* CRUD operations and the create-result cache.                            *)
(*                                                                         *)
(* Python strings are modelled as sequences of one-character strings, so   *)
(* that strip(), len(), isdigit(), split(), int() and the regular          *)
(* expressions are computed the way the code computes them.                *)
(***************************************************************************)
EXTENDS Integers, Sequences, FiniteSets, TLC

VARIABLES
    clients,    \* client id -> the SDXClient object's fields (and whether it exists)
    last,       \* the most recent operation: its name, its client, what it raised
    arg,        \* the argument(s) of the most recent construction or assignment
    reqs,       \* the HTTP requests the most recent operation issued, in order
    ret,        \* what the most recent CRUD operation returned
    posts,      \* history: per client and cache key, the POSTs since the first 2xx
    steps,      \* history: the assignments made so far (counted where they are bounded)
    pending,    \* the value drawn for the assignment to come (where one is drawn)
    logs        \* the log records the most recent operation emitted, in order

vars == <<clients, last, arg, reqs, ret, posts, steps, pending, logs>>

(***************************************************************************)
(* Python values                                                           *)
(***************************************************************************)

\* A scalar: None, a str (its characters) or an int (its decimal digits).
None == [t |-> "none", s |-> <<>>]
PyStr(s) == [t |-> "str", s |-> s]
PyInt(s) == [t |-> "int", s |-> s]

\* bool(value) of a scalar.
Truthy(v) ==
    \/ v.t = "str" /\ v.s # <<>>
    \/ v.t = "int" /\ v.s # <<"0">>

Rep(ch, n) == [i \in 1..n |-> ch]

Whitespace == {" ", "\t", "\n"}

Digits == {"0", "1", "2", "3", "4", "5", "6", "7", "8", "9"}

DigitVal(ch) ==
    CASE ch = "0" -> 0 [] ch = "1" -> 1 [] ch = "2" -> 2 [] ch = "3" -> 3
      [] ch = "4" -> 4 [] ch = "5" -> 5 [] ch = "6" -> 6 [] ch = "7" -> 7
      [] ch = "8" -> 8 [] ch = "9" -> 9

\* str.strip(): leading and trailing whitespace removed.
RECURSIVE LStrip(_)
LStrip(s) ==
    IF s # <<>> /\ Head(s) \in Whitespace THEN LStrip(Tail(s)) ELSE s

RECURSIVE RStrip(_)
RStrip(s) ==
    IF s # <<>> /\ s[Len(s)] \in Whitespace
    THEN RStrip(SubSeq(s, 1, Len(s) - 1))
    ELSE s

Strip(s) == RStrip(LStrip(s))

\* str.isdigit(): non-empty and every character a digit.
IsDigit(s) == s # <<>> /\ \A i \in 1..Len(s) : s[i] \in Digits

\* x in s, for a one-character x.
Contains(s, ch) == \E i \in 1..Len(s) : s[i] = ch

\* str.split(sep) for a one-character separator: the parts between occurrences.
RECURSIVE SplitFrom(_, _, _)
SplitFrom(s, sep, cur) ==
    IF s = <<>> THEN <<cur>>
    ELSE IF Head(s) = sep THEN <<cur>> \o SplitFrom(Tail(s), sep, <<>>)
    ELSE SplitFrom(Tail(s), sep, Append(cur, Head(s)))

Split(s, sep) == SplitFrom(s, sep, <<>>)

RECURSIVE DigitsToNat(_)
DigitsToNat(s) ==
    IF s = <<>> THEN 0
    ELSE 10 * DigitsToNat(SubSeq(s, 1, Len(s) - 1)) + DigitVal(s[Len(s)])

\* int(str): surrounding whitespace ignored, an optional sign, then digits;
\* anything else is a ValueError (ok = FALSE).
ParseInt(s) ==
    LET t == Strip(s)
        signed == t # <<>> /\ Head(t) \in {"+", "-"}
        body == IF signed THEN Tail(t) ELSE t
    IN  IF IsDigit(body)
        THEN [ok |-> TRUE,
              n |-> IF signed /\ Head(t) = "-"
                    THEN 0 - DigitsToNat(body) ELSE DigitsToNat(body)]
        ELSE [ok |-> FALSE, n |-> 0]

(***************************************************************************)
(* Exceptions: the type, the message template and the interpolated value.  *)
(***************************************************************************)
\* status_code of an SDXException: absent, an integer, or (when a message was
\* passed positionally) a string.
NoStatus == [t |-> "none", n |-> 0, text |-> ""]
IntStatus(n) == [t |-> "int", n |-> n, text |-> ""]
StrStatus(text) == [t |-> "str", n |-> 0, text |-> text]

NoErr == [type |-> "none", msg |-> "str", fmt |-> "", arg |-> <<>>, status |-> NoStatus]
Err(type, fmt, a) ==
    [type |-> type, msg |-> "str", fmt |-> fmt, arg |-> a, status |-> NoStatus]
Raised(e) == e.type # "none"

MSG_ENDPOINTS_LIST == "Endpoints must be a list."
MSG_ENDPOINTS_MIN == "Endpoints must contain at least 2 entries."
MSG_RANGE_VALUES == "Invalid VLAN range values: '{}'. Must be 'VLAN ID1:VLAN ID2'."
MSG_RANGE_FORMAT == "Invalid VLAN range format: '{}'. Must be 'VLAN ID1:VLAN ID2'."
MSG_VLAN_SAME == "All endpoints must have the same VLAN value if one endpoint is 'all' or a range."

(***************************************************************************)
(* Endpoints                                                               *)
(***************************************************************************)
VLAN_MIN == 1
VLAN_MAX == 4095

ANY == <<"a", "n", "y">>
ALL == <<"a", "l", "l">>
UNTAGGED == <<"u", "n", "t", "a", "g", "g", "e", "d">>

\* An endpoint dictionary with both keys, and the other shapes a caller can pass.
Endpoint(p, v) ==
    [t |-> "dict", has_port_id |-> TRUE, port_id |-> p, has_vlan |-> TRUE, vlan |-> v]
EndpointNoPort(v) ==
    [t |-> "dict", has_port_id |-> FALSE, port_id |-> None, has_vlan |-> TRUE, vlan |-> v]
EndpointNoVlan(p) ==
    [t |-> "dict", has_port_id |-> TRUE, port_id |-> p, has_vlan |-> FALSE, vlan |-> None]
NotADict ==
    [t |-> "str", has_port_id |-> FALSE, port_id |-> None, has_vlan |-> FALSE, vlan |-> None]

\* The endpoints argument: None, a list of elements, or a (non-empty) string.
NoList == [t |-> "none", items |-> <<>>]
List(items) == [t |-> "list", items |-> items]
NotAList == [t |-> "str", items |-> <<>>]

\* bool(value) of None, a list or a non-empty string.
TruthyList(v) == v.t = "str" \/ (v.t = "list" /\ v.items # <<>>)

\* PORT_ID_PATTERN: the literal prefix, then three non-empty segments separated
\* by ':'. The character class [a-zA-Z0-9.,-_\/] holds the range ',' to '_'.
PORT_ID_PREFIX == <<"u", "r", "n", ":", "s", "d", "x", ":", "p", "o", "r", "t", ":">>

PortIdChars ==
    {"a", "b", "c", "d", "e", "f", "g", "h", "i", "j", "k", "l", "m",
     "n", "o", "p", "q", "r", "s", "t", "u", "v", "w", "x", "y", "z",
     "A", "B", "C", "D", "E", "F", "G", "H", "I", "J", "K", "L", "M",
     "N", "O", "P", "Q", "R", "S", "T", "U", "V", "W", "X", "Y", "Z"}
    \cup Digits
    \cup {".", ",", "-", "/", ":", ";", "<", "=", ">", "?", "@",
          "[", "\\", "]", "^", "_"}

\* re.match(PORT_ID_PATTERN, s) is not None ('$' also matches before a final newline).
PortIdMatches(s) ==
    LET body == IF s # <<>> /\ s[Len(s)] = "\n" THEN SubSeq(s, 1, Len(s) - 1) ELSE s
        k == Len(PORT_ID_PREFIX)
        rest == SubSeq(body, k + 1, Len(body))
    IN  /\ Len(body) > k
        /\ SubSeq(body, 1, k) = PORT_ID_PREFIX
        /\ \A i \in 1..Len(rest) : rest[i] \in PortIdChars
        /\ \E i, j \in 1..Len(rest) :
              /\ rest[i] = ":" /\ rest[j] = ":"
              /\ 2 <= i /\ i + 2 <= j /\ j + 1 <= Len(rest)

\* The range branch as it would be if the bounds error raised inside the try
\* were not caught by the except clause of the same try.
ValidateVlanRangeUncaught(vlan_value) ==
    LET vlan_range == Split(vlan_value, ":")
    IN  IF Len(vlan_range) # 2
        THEN Err("ValueError", MSG_RANGE_VALUES, vlan_value)
        ELSE LET vlan_id1 == ParseInt(vlan_range[1])
                 vlan_id2 == ParseInt(vlan_range[2])
             IN  IF ~vlan_id1.ok \/ ~vlan_id2.ok
                 THEN Err("ValueError", MSG_RANGE_FORMAT, vlan_value)
                 ELSE IF ~(VLAN_MIN <= vlan_id1.n /\ vlan_id1.n < vlan_id2.n
                           /\ vlan_id2.n <= VLAN_MAX)
                 THEN Err("ValueError",
                     "Invalid VLAN range values: '{}'. Must be between 1 and 4095, and VLAN ID1 must be less than VLAN ID2.", vlan_value)
                 ELSE NoErr

\* The range branch of _validate_endpoint_dict: split(":"), the part count,
\* then int() and the bounds inside the try whose except re-raises as "format".
ValidateVlanRange(vlan_value) ==
    LET vlan_range == Split(vlan_value, ":")
    IN  IF Len(vlan_range) # 2
        THEN Err("ValueError", MSG_RANGE_VALUES, vlan_value)
        ELSE LET vlan_id1 == ParseInt(vlan_range[1])
                 vlan_id2 == ParseInt(vlan_range[2])
             IN  IF ~vlan_id1.ok \/ ~vlan_id2.ok
                 THEN Err("ValueError", MSG_RANGE_FORMAT, vlan_value)
                 ELSE IF ~(VLAN_MIN <= vlan_id1.n /\ vlan_id1.n < vlan_id2.n
                           /\ vlan_id2.n <= VLAN_MAX)
                 THEN Err("ValueError", MSG_RANGE_FORMAT, vlan_value)
                 ELSE NoErr

\* The vlan part of _validate_endpoint_dict, for a string vlan_value.
ValidateVlanValue(vlan_value) ==
    IF vlan_value \in {ANY, ALL, UNTAGGED} THEN NoErr
    ELSE IF IsDigit(vlan_value)
    THEN IF ~(VLAN_MIN <= DigitsToNat(vlan_value) /\ DigitsToNat(vlan_value) <= VLAN_MAX)
         THEN Err("ValueError", "Invalid VLAN value: '{}'. Must be between 1 and 4095.", vlan_value)
         ELSE NoErr
    ELSE IF Contains(vlan_value, ":") THEN ValidateVlanRange(vlan_value)
    ELSE Err("ValueError",
        "Invalid VLAN value: '{}'. Must be 'any', 'all', 'untagged', a string representing an integer between 1 and 4095, or a range.", vlan_value)

\* _validate_endpoint_dict: what it raises (NoErr: it returns the dictionary).
_validate_endpoint_dict(endpoint_dict) ==
    IF endpoint_dict.t # "dict"
    THEN Err("TypeError", "Endpoints must be a list of dictionaries.", <<>>)
    ELSE IF ~endpoint_dict.has_port_id \/ ~Truthy(endpoint_dict.port_id)
    THEN Err("ValueError", "Each endpoint must contain a non-empty 'port_id' key.", <<>>)
    ELSE IF endpoint_dict.port_id.t # "str"
    THEN Err("TypeError", "expected string or bytes-like object", <<>>)
    ELSE IF ~PortIdMatches(endpoint_dict.port_id.s)
    THEN Err("ValueError", "Invalid port_id format: {}", endpoint_dict.port_id.s)
    ELSE IF ~endpoint_dict.has_vlan \/ ~Truthy(endpoint_dict.vlan)
    THEN Err("ValueError", "Each endpoint must contain a non-empty 'vlan' key.", <<>>)
    ELSE IF endpoint_dict.vlan.t # "str"
    THEN Err("TypeError", "VLAN must be a string.", <<>>)
    ELSE ValidateVlanValue(endpoint_dict.vlan.s)

\* The flags _validate_endpoints keeps while it walks the list.
VlanFlags0 ==
    [vlans |-> {}, vlan_ranges |-> {}, has_vlan_range |-> FALSE,
     has_single_vlan |-> FALSE, has_special_vlan |-> FALSE,
     has_any_untagged |-> FALSE]

VlanFlagsAdd(f, vlan_value) ==
    IF vlan_value \in {ANY, ALL, UNTAGGED}
    THEN IF vlan_value \in {ANY, UNTAGGED}
         THEN [f EXCEPT !.vlans = @ \cup {vlan_value}, !.has_any_untagged = TRUE]
         ELSE [f EXCEPT !.vlans = @ \cup {vlan_value}, !.has_special_vlan = TRUE]
    ELSE IF IsDigit(vlan_value)
    THEN [f EXCEPT !.vlans = @ \cup {vlan_value}, !.has_single_vlan = TRUE]
    ELSE IF Contains(vlan_value, ":")
    THEN [f EXCEPT !.vlan_ranges = @ \cup {vlan_value}, !.has_vlan_range = TRUE]
    ELSE f

\* The consistency checks as they would be if 'any' and 'untagged' were allowed
\* next to a range.
VlanInconsistentButAny(f) ==
    \/ /\ f.has_vlan_range
       /\ \/ Cardinality(f.vlan_ranges) > 1
          \/ f.has_single_vlan
          \/ f.has_special_vlan
    \/ /\ f.has_special_vlan
       /\ \/ Cardinality(f.vlans) > 1
          \/ f.has_single_vlan
          \/ f.has_vlan_range

\* The two consistency checks made after each element.
VlanInconsistent(f) ==
    \/ /\ f.has_vlan_range
       /\ \/ Cardinality(f.vlan_ranges) > 1
          \/ f.has_single_vlan
          \/ f.has_special_vlan
          \/ f.has_any_untagged
    \/ /\ f.has_special_vlan
       /\ \/ Cardinality(f.vlans) > 1
          \/ f.has_single_vlan
          \/ f.has_vlan_range

\* The loop of _validate_endpoints from element i on: each element is validated,
\* its vlan recorded and the consistency checked before the next element.
RECURSIVE ValidateEndpointsFrom(_, _, _)
ValidateEndpointsFrom(endpoints, i, f) ==
    IF i > Len(endpoints) THEN NoErr
    ELSE LET e == _validate_endpoint_dict(endpoints[i])
         IN  IF Raised(e) THEN e
             ELSE LET g == VlanFlagsAdd(f, endpoints[i].vlan.s)
                  IN  IF VlanInconsistent(g)
                      THEN Err("ValueError", MSG_VLAN_SAME, <<>>)
                      ELSE ValidateEndpointsFrom(endpoints, i + 1, g)

MIN_ENDPOINTS == 2

\* _validate_endpoints: what it raises (NoErr: it returns the validated list,
\* or [] for None).
_validate_endpoints(endpoints) ==
    IF endpoints.t = "none" THEN NoErr
    ELSE IF endpoints.t # "list" THEN Err("TypeError", MSG_ENDPOINTS_LIST, <<>>)
    ELSE IF Len(endpoints.items) < MIN_ENDPOINTS
    THEN Err("ValueError", MSG_ENDPOINTS_MIN, <<>>)
    ELSE ValidateEndpointsFrom(endpoints.items, 1, VlanFlags0)

\* _validate_endpoints returning the validated endpoints last first.
ValidatedEndpointsReversed(endpoints) ==
    IF endpoints.t = "none" THEN List(<<>>)
    ELSE List([i \in 1..Len(endpoints.items) |->
                  endpoints.items[Len(endpoints.items) + 1 - i]])

\* The value _validate_endpoints returns when it does not raise.
ValidatedEndpoints(endpoints) ==
    IF endpoints.t = "none" THEN List(<<>>) ELSE List(endpoints.items)

(***************************************************************************)
(* base_url, name, description                                             *)
(***************************************************************************)
NAME_MAX == 50
DESCRIPTION_MAX == 255

MSG_NAME == "Name must be a non-empty string with maximum 50 characters."

\* A setter's outcome: the object's fields afterwards and what was raised.
Stored(self, attr, value) == [self |-> [self EXCEPT ![attr] = value], err |-> NoErr]
Raise(self, e) == [self |-> self, err |-> e]

\* base_url.setter
base_url_setter(self, value) ==
    IF value.t # "str" \/ Strip(value.s) = <<>>
    THEN Raise(self, Err("ValueError", "Base URL must be a non-empty string.", <<>>))
    ELSE Stored(self, "_base_url", value)

\* name.setter as it would be if it wrote the field before checking the value.
name_setter_stores_first(self, value) ==
    IF /\ value.t # "none"
       /\ (value.t # "str" \/ Strip(value.s) = <<>> \/ Len(value.s) > NAME_MAX)
    THEN [self |-> [self EXCEPT !._name = value], err |-> Err("ValueError", MSG_NAME, <<>>)]
    ELSE Stored(self, "_name", value)

\* name.setter
name_setter(self, value) ==
    IF value.t # "none"
       /\ (value.t # "str" \/ Strip(value.s) = <<>> \/ Len(value.s) > NAME_MAX)
    THEN Raise(self, Err("ValueError", MSG_NAME, <<>>))
    ELSE Stored(self, "_name", value)

\* description.setter
description_setter(self, value) ==
    IF value.t = "none" \/ ~Truthy(value)
    THEN Stored(self, "_description", None)
    ELSE IF value.t # "str"
    THEN Raise(self, Err("TypeError", "object of type 'int' has no len()", <<>>))
    ELSE IF Len(value.s) > DESCRIPTION_MAX
    THEN Raise(self, Err("ValueError",
        "Description attribute must be less than 256 characters.", <<>>))
    ELSE Stored(self, "_description", value)

\* endpoints.setter
endpoints_setter(self, value) ==
    IF TruthyList(value)
    THEN IF Raised(_validate_endpoints(value))
         THEN Raise(self, _validate_endpoints(value))
         ELSE Stored(self, "_endpoints", ValidatedEndpoints(value))
    ELSE Stored(self, "_endpoints", NoList)

(***************************************************************************)
(* Notifications                                                           *)
(***************************************************************************)
NOTIFICATIONS_MAX == 10

Notification(email) == [t |-> "dict", has_email |-> TRUE, email |-> email]
NotificationNoEmail == [t |-> "dict", has_email |-> FALSE, email |-> None]
NotANotification == [t |-> "str", has_email |-> FALSE, email |-> None]

\* is_valid_email: a str matching ^\S+@\S+$ ('$' also matches before a final newline).
is_valid_email(email) ==
    /\ email.t = "str"
    /\ LET s == email.s
           body == IF s # <<>> /\ s[Len(s)] = "\n" THEN SubSeq(s, 1, Len(s) - 1) ELSE s
       IN  /\ \A i \in 1..Len(body) : body[i] \notin Whitespace
           /\ \E i \in 1..Len(body) : body[i] = "@" /\ 1 < i /\ i < Len(body)

RECURSIVE ValidateNotificationsFrom(_, _)
ValidateNotificationsFrom(notifications, i) ==
    IF i > Len(notifications) THEN NoErr
    ELSE IF notifications[i].t # "dict"
    THEN Err("ValueError", "Each notification must be a dictionary.", <<>>)
    ELSE IF ~notifications[i].has_email
    THEN Err("ValueError", "Each notification dictionary must contain a key 'email'.", <<>>)
    ELSE IF ~is_valid_email(notifications[i].email)
    THEN Err("ValueError", "Invalid email address or email format: {}", notifications[i].email.s)
    ELSE ValidateNotificationsFrom(notifications, i + 1)

\* _validate_notifications without the check of the length.
_validate_notifications_any_length(notifications) ==
    IF notifications.t = "none" THEN NoErr
    ELSE IF notifications.t # "list" THEN Err("ValueError",
        "Notifications must be provided as a list.", <<>>)
    ELSE ValidateNotificationsFrom(notifications.items, 1)

\* _validate_notifications: what it raises (NoErr: it returns None for None and
\* otherwise a list of the same entries).
_validate_notifications(notifications) ==
    IF notifications.t = "none" THEN NoErr
    ELSE IF notifications.t # "list" THEN Err("ValueError",
        "Notifications must be provided as a list.", <<>>)
    ELSE IF Len(notifications.items) > NOTIFICATIONS_MAX
    THEN Err("ValueError", "Notifications can contain at most 10 email addresses.", <<>>)
    ELSE ValidateNotificationsFrom(notifications.items, 1)

\* notifications.setter
notifications_setter(self, value) ==
    IF value.t = "none" \/ ~TruthyList(value)
    THEN Stored(self, "_notifications", NoList)
    ELSE IF Raised(_validate_notifications(value))
    THEN Raise(self, _validate_notifications(value))
    ELSE Stored(self, "_notifications", value)

(***************************************************************************)
(* Scheduling                                                              *)
(***************************************************************************)

\* A dictionary is its items in insertion order; None and a non-dictionary
\* (a non-empty string) are the other shapes.
NoDict == [t |-> "none", entries |-> <<>>]
Dict(entries) == [t |-> "dict", entries |-> entries]
NotADictValue == [t |-> "str", entries |-> <<>>]

TruthyDict(v) == v.t = "str" \/ (v.t = "dict" /\ v.entries # <<>>)

HasKey(d, k) == \E i \in 1..Len(d.entries) : d.entries[i].key = k
Lookup(d, k) == d.entries[CHOOSE i \in 1..Len(d.entries) : d.entries[i].key = k].value

\* The code points of the characters a timestamp can hold.
Ord(ch) ==
    CASE ch = "\n" -> 10 [] ch = " " -> 32 [] ch = "-" -> 45
      [] ch \in Digits -> 48 + DigitVal(ch)
      [] ch = ":" -> 58 [] ch = "T" -> 84 [] ch = "Z" -> 90
      [] OTHER -> 97

\* a <= b for Python strings: lexicographic by code point.
RECURSIVE StrLeq(_, _)
StrLeq(a, b) ==
    IF a = <<>> THEN TRUE
    ELSE IF b = <<>> THEN FALSE
    ELSE IF Head(a) # Head(b) THEN Ord(Head(a)) < Ord(Head(b))
    ELSE StrLeq(Tail(a), Tail(b))

ISO8601_LEN == 20

\* _is_valid_iso8601: ^\d{4}-\d{2}-\d{2}T\d{2}:\d{2}:\d{2}Z$
_is_valid_iso8601(timestamp) ==
    LET s == timestamp
        body == IF s # <<>> /\ s[Len(s)] = "\n" THEN SubSeq(s, 1, Len(s) - 1) ELSE s
    IN  /\ Len(body) = ISO8601_LEN
        /\ \A i \in {1, 2, 3, 4, 6, 7, 9, 10, 12, 13, 15, 16, 18, 19} : body[i] \in Digits
        /\ body[5] = "-" /\ body[8] = "-" /\ body[11] = "T"
        /\ body[14] = ":" /\ body[17] = ":" /\ body[20] = "Z"

RECURSIVE ValidateSchedulingFrom(_, _)
ValidateSchedulingFrom(entries, i) ==
    IF i > Len(entries) THEN NoErr
    ELSE IF entries[i].key \notin {"start_time", "end_time"}
    THEN Err("ValueError", "Invalid scheduling key: {}", <<entries[i].key>>)
    ELSE IF entries[i].value.t # "str"
    THEN Err("TypeError", "{} must be a string.", <<entries[i].key>>)
    ELSE IF ~_is_valid_iso8601(entries[i].value.s)
    THEN Err("ValueError",
        "Invalid '{}' format. Use ISO8601 format (YYYY-MM-DDTHH:mm:SSZ).", <<entries[i].key>>)
    ELSE ValidateSchedulingFrom(entries, i + 1)

\* _validate_scheduling rejecting an end_time before the start_time only.
_validate_scheduling_equal_allowed(scheduling) ==
    IF scheduling.t = "none" THEN NoErr
    ELSE IF scheduling.t # "dict"
    THEN Err("TypeError", "Scheduling must be a dictionary.", <<>>)
    ELSE IF Raised(ValidateSchedulingFrom(scheduling.entries, 1))
    THEN ValidateSchedulingFrom(scheduling.entries, 1)
    ELSE IF /\ HasKey(scheduling, "start_time") /\ HasKey(scheduling, "end_time")
            /\ StrLeq(Lookup(scheduling, "end_time").s, Lookup(scheduling, "start_time").s)
            /\ Lookup(scheduling, "end_time") # Lookup(scheduling, "start_time")
    THEN Err("ValueError", "End time must be after start time.", <<>>)
    ELSE NoErr

\* _validate_scheduling: what it raises.
_validate_scheduling(scheduling) ==
    IF scheduling.t = "none" THEN NoErr
    ELSE IF scheduling.t # "dict"
    THEN Err("TypeError", "Scheduling must be a dictionary.", <<>>)
    ELSE IF Raised(ValidateSchedulingFrom(scheduling.entries, 1))
    THEN ValidateSchedulingFrom(scheduling.entries, 1)
    ELSE IF /\ HasKey(scheduling, "start_time") /\ HasKey(scheduling, "end_time")
            /\ StrLeq(Lookup(scheduling, "end_time").s, Lookup(scheduling, "start_time").s)
    THEN Err("ValueError", "End time must be after start time.", <<>>)
    ELSE NoErr

\* scheduling.setter
scheduling_setter(self, value) ==
    IF value.t = "none" \/ ~TruthyDict(value)
    THEN Stored(self, "_scheduling", NoDict)
    ELSE IF value.t # "dict"
    THEN Raise(self, Err("TypeError", "Scheduling attribute must be a dictionary.", <<>>))
    ELSE IF Raised(_validate_scheduling(value))
    THEN Raise(self, _validate_scheduling(value))
    ELSE Stored(self, "_scheduling", value)

(***************************************************************************)
(* QoS metrics                                                             *)
(***************************************************************************)
MIN_BW_LOW == 0
MIN_BW_HIGH == 100
MAX_DELAY_LOW == 0
MAX_DELAY_HIGH == 1000
MAX_OXPS_LOW == 1
MAX_OXPS_HIGH == 100

\* A number-like value: an int, a bool (n is 0 or 1) or a str.
Num(n) == [t |-> "int", n |-> n]
Bool(b) == [t |-> "bool", n |-> IF b THEN 1 ELSE 0]
NotANum == [t |-> "str", n |-> 0]

\* The value dictionary of one metric, and a value that is no dictionary.
Metric(value) ==
    [t |-> "dict", has_value |-> TRUE, value |-> value,
     has_strict |-> FALSE, strict |-> Bool(FALSE)]
MetricStrict(value, strict) ==
    [t |-> "dict", has_value |-> TRUE, value |-> value,
     has_strict |-> TRUE, strict |-> strict]
MetricNoValue ==
    [t |-> "dict", has_value |-> FALSE, value |-> Num(0),
     has_strict |-> FALSE, strict |-> Bool(FALSE)]
NotAMetric ==
    [t |-> "int", has_value |-> FALSE, value |-> Num(0),
     has_strict |-> FALSE, strict |-> Bool(FALSE)]

\* _validate_qos_metric_value with the upper bounds excluded.
_validate_qos_metric_value_exclusive(key, value_dict) ==
    IF ~value_dict.has_value
    THEN Err("ValueError", "Missing required key 'value' in QoS metric for '{}'", <<key>>)
    ELSE IF value_dict.value.t \notin {"int", "bool"}
    THEN Err("TypeError", "QoS value for '{key}' must be an integer.", <<>>)
    ELSE IF value_dict.has_strict /\ value_dict.strict.t # "bool"
    THEN Err("TypeError", "'strict' in QoS metric of '{}' must be a boolean.", <<key>>)
    ELSE IF key = "min_bw"
            /\ ~(MIN_BW_LOW <= value_dict.value.n /\ value_dict.value.n < MIN_BW_HIGH)
    THEN Err("ValueError", "qos_metric 'min_bw' value must be between 0 and 100.", <<>>)
    ELSE IF key = "max_delay"
            /\ ~(MAX_DELAY_LOW <= value_dict.value.n /\ value_dict.value.n < MAX_DELAY_HIGH)
    THEN Err("ValueError", "qos_metric 'max_delay' value must be between 0 and 1000.", <<>>)
    ELSE IF key = "max_number_oxps"
            /\ ~(MAX_OXPS_LOW <= value_dict.value.n /\ value_dict.value.n < MAX_OXPS_HIGH)
    THEN Err("ValueError", "qos_metric 'max_number_oxps' value must be between 1 and 100.", <<>>)
    ELSE NoErr

\* _validate_qos_metric_value: what it raises (isinstance(x, int) holds for a bool).
_validate_qos_metric_value(key, value_dict) ==
    IF ~value_dict.has_value
    THEN Err("ValueError", "Missing required key 'value' in QoS metric for '{}'", <<key>>)
    ELSE IF value_dict.value.t \notin {"int", "bool"}
    THEN Err("TypeError", "QoS value for '{key}' must be an integer.", <<>>)
    ELSE IF value_dict.has_strict /\ value_dict.strict.t # "bool"
    THEN Err("TypeError", "'strict' in QoS metric of '{}' must be a boolean.", <<key>>)
    ELSE IF key = "min_bw"
            /\ ~(MIN_BW_LOW <= value_dict.value.n /\ value_dict.value.n <= MIN_BW_HIGH)
    THEN Err("ValueError", "qos_metric 'min_bw' value must be between 0 and 100.", <<>>)
    ELSE IF key = "max_delay"
            /\ ~(MAX_DELAY_LOW <= value_dict.value.n /\ value_dict.value.n <= MAX_DELAY_HIGH)
    THEN Err("ValueError", "qos_metric 'max_delay' value must be between 0 and 1000.", <<>>)
    ELSE IF key = "max_number_oxps"
            /\ ~(MAX_OXPS_LOW <= value_dict.value.n /\ value_dict.value.n <= MAX_OXPS_HIGH)
    THEN Err("ValueError", "qos_metric 'max_number_oxps' value must be between 1 and 100.", <<>>)
    ELSE NoErr

RECURSIVE ValidateQosFrom(_, _)
ValidateQosFrom(entries, i) ==
    IF i > Len(entries) THEN NoErr
    ELSE IF entries[i].key \notin {"min_bw", "max_delay", "max_number_oxps"}
    THEN Err("ValueError", "Invalid QoS metric: {}", <<entries[i].key>>)
    ELSE IF entries[i].value.t # "dict"
    THEN Err("TypeError", "QoS metric value for '{}' must be a dictionary.", <<entries[i].key>>)
    ELSE IF Raised(_validate_qos_metric_value(entries[i].key, entries[i].value))
    THEN _validate_qos_metric_value(entries[i].key, entries[i].value)
    ELSE ValidateQosFrom(entries, i + 1)

\* _validate_qos_metric: what it raises.
_validate_qos_metric(qos_metrics) ==
    IF qos_metrics.t = "none" THEN NoErr
    ELSE IF qos_metrics.t # "dict" THEN Err("TypeError", "QoS metrics must be a dictionary.", <<>>)
    ELSE ValidateQosFrom(qos_metrics.entries, 1)

\* qos_metrics.setter
qos_metrics_setter(self, value) ==
    IF value.t = "none" \/ ~TruthyDict(value)
    THEN Stored(self, "_qos_metrics", NoDict)
    ELSE IF Raised(_validate_qos_metric(value))
    THEN Raise(self, _validate_qos_metric(value))
    ELSE Stored(self, "_qos_metrics", value)

(***************************************************************************)
(* The client object                                                       *)
(***************************************************************************)
ClientIds == {"A", "B"}

\* No object: the name is unbound (before construction, or construction raised).
NoClient ==
    [alive |-> FALSE, _base_url |-> None, _name |-> None, _endpoints |-> NoList,
     _description |-> None, _notifications |-> NoList, _scheduling |-> NoDict,
     _qos_metrics |-> NoDict, _request_cache |-> {}]

\* The constructor's arguments (and, for an assignment, the one value assigned).
NoArgs ==
    [attr |-> "", base_url |-> None, name |-> None, endpoints |-> NoList,
     description |-> None, notifications |-> NoList, scheduling |-> NoDict,
     qos_metrics |-> NoDict]

\* SDXClient.__init__: every argument is written to its backing field as given,
\* except notifications, which goes through _validate_notifications.
__init__(a) ==
    IF Raised(_validate_notifications(a.notifications))
    THEN Raise(NoClient, _validate_notifications(a.notifications))
    ELSE [self |-> [alive |-> TRUE,
                    _base_url |-> a.base_url,
                    _name |-> a.name,
                    _endpoints |-> a.endpoints,
                    _description |-> a.description,
                    _notifications |-> a.notifications,
                    _scheduling |-> a.scheduling,
                    _qos_metrics |-> a.qos_metrics,
                    _request_cache |-> {}],
          err |-> NoErr]

NoRet == [t |-> "noret"]

\* SDXClient(...): the object exists afterwards unless the constructor raised.
Construct(c, a) ==
    /\ ~clients[c].alive
    /\ clients' = [clients EXCEPT ![c] = __init__(a).self]
    /\ last' = [op |-> "__init__", c |-> c, err |-> __init__(a).err]
    /\ arg' = [a EXCEPT !.attr = "all"]
    /\ reqs' = <<>>
    /\ ret' = NoRet
    /\ logs' = <<>>
    /\ UNCHANGED posts

\* client.<attr> = value, through the attribute's setter.
Assign(c, attr, value, r) ==
    /\ clients[c].alive
    /\ clients' = [clients EXCEPT ![c] = r.self]
    /\ last' = [op |-> "set", c |-> c, err |-> r.err]
    /\ arg' = [NoArgs EXCEPT !.attr = attr, ![attr] = value]
    /\ reqs' = <<>>
    /\ ret' = NoRet
    /\ logs' = <<>>
    /\ UNCHANGED posts

SetBaseUrl(c, v) == Assign(c, "base_url", v, base_url_setter(clients[c], v))
SetName(c, v) == Assign(c, "name", v, name_setter(clients[c], v))
SetEndpoints(c, v) == Assign(c, "endpoints", v, endpoints_setter(clients[c], v))
SetDescription(c, v) == Assign(c, "description", v, description_setter(clients[c], v))
SetNotifications(c, v) == Assign(c, "notifications", v, notifications_setter(clients[c], v))
SetScheduling(c, v) == Assign(c, "scheduling", v, scheduling_setter(clients[c], v))
SetQosMetrics(c, v) == Assign(c, "qos_metrics", v, qos_metrics_setter(clients[c], v))

(***************************************************************************)
(* SDXException (src/sdxlib/sdx_exception.py)                              *)
(***************************************************************************)
MSG_400 == "Request does not have a valid JSON or body is incomplete/incorrect"
MSG_401 == "Not Authorized"
MSG_402 == "Request not compatible (e.g., P2MP L2VPN requested, but only P2P supported)"
MSG_410 == "Can't fulfill the strict QoS requirements"
MSG_411 == "Scheduling not possible"

\* A message argument: absent (None) or a string with its interpolated value.
NoMessage == [t |-> "none", fmt |-> "", arg |-> <<>>]
Message(fmt, a) == [t |-> "str", fmt |-> fmt, arg |-> a]

\* The method_messages tables of the five operations, as dict.get(code): the
\* entry, or None for a code (or a non-integer status_code) the table lacks.
MethodMessagesGet(table, status_code) ==
    LET n == status_code.n
        hit(codes) == status_code.t = "int" /\ n \in codes
    IN  IF table = "create" /\ hit({201, 400, 401, 402, 409, 410, 411, 422})
        THEN Message(CASE n = 201 -> "L2VPN Service Created" [] n = 400 -> MSG_400
                       [] n = 401 -> MSG_401 [] n = 402 -> MSG_402
                       [] n = 409 -> "L2VPN Service already exists"
                       [] n = 410 -> MSG_410 [] n = 411 -> MSG_411
                       [] n = 422 -> "Attribute not supported by the SDX-LC/OXPO", <<>>)
        ELSE IF table = "update" /\ hit({201, 400, 401, 402, 404, 409, 410, 411})
        THEN Message(CASE n = 201 -> "L2VPN Service Modified" [] n = 400 -> MSG_400
                       [] n = 401 -> MSG_401 [] n = 402 -> MSG_402
                       [] n = 404 -> "L2VPN Service ID not found"
                       [] n = 409 -> "Conflicts with a different L2VPN"
                       [] n = 410 -> MSG_410 [] n = 411 -> MSG_411, <<>>)
        ELSE IF table = "get" /\ hit({200, 401, 404})
        THEN Message(CASE n = 200 -> "OK" [] n = 401 -> MSG_401
                       [] n = 404 -> "Service ID not found", <<>>)
        ELSE IF table = "get_all" /\ hit({200})
        THEN Message("OK", <<>>)
        ELSE IF table = "delete" /\ hit({201, 401, 404})
        THEN Message(CASE n = 201 -> "L2VPN Deleted" [] n = 401 -> MSG_401
                       [] n = 404 -> "L2VPN Service ID provided does not exist", <<>>)
        ELSE NoMessage

\* SDXException.__init__: message or (method_messages.get(status_code) if
\* method_messages else "").
SDXException(status_code, method_messages, message) ==
    LET resolved ==
            IF message.t = "str" /\ message.fmt # "" THEN message
            ELSE IF method_messages # "none"
            THEN MethodMessagesGet(method_messages, status_code)
            ELSE Message("", <<>>)
    IN  [type |-> "SDXException", msg |-> resolved.t, fmt |-> resolved.fmt,
         arg |-> resolved.arg, status |-> status_code]

\* dict.get(key) on a table, without the default.
MessageOrNone(table, n) == MethodMessagesGet(table, IntStatus(n))

\* dict.get(key, default) on a table as the operations use it for the message.
MessageOrUnknown(table, n) ==
    IF MethodMessagesGet(table, IntStatus(n)).t = "str"
    THEN MethodMessagesGet(table, IntStatus(n))
    ELSE Message("Unknown error occurred.", <<>>)

(***************************************************************************)
(* The transport (requests): what one HTTP call can come back with.        *)
(***************************************************************************)
TIMEOUT == 120
VERSION == "1.0"

\* A response body: a JSON object (with or without service_id / description),
\* or no content.
Body(service_id) ==
    [t |-> "dict", has_service_id |-> TRUE, service_id |-> service_id,
     has_description |-> FALSE, description |-> ""]
BodyDescription(description) ==
    [t |-> "dict", has_service_id |-> FALSE, service_id |-> "",
     has_description |-> TRUE, description |-> description]
BodyEmpty ==
    [t |-> "dict", has_service_id |-> FALSE, service_id |-> "",
     has_description |-> FALSE, description |-> ""]
NoContent ==
    [t |-> "none", has_service_id |-> FALSE, service_id |-> "",
     has_description |-> FALSE, description |-> ""]

\* The call returned a response with a 2xx status.
Ok(status, body) == [kind |-> "ok", status |-> status, body |-> body, text |-> ""]
\* raise_for_status() raised HTTPError for the response.
HttpError(status, body) ==
    [kind |-> "http_error", status |-> status, body |-> body, text |-> ""]
\* The call raised Timeout, or another RequestException with the given text.
TimedOut == [kind |-> "timeout", status |-> 0, body |-> NoContent, text |-> ""]
Failed(text) == [kind |-> "error", status |-> 0, body |-> NoContent, text |-> text]

\* What an operation returned: a parsed body, None, or (delete) an exception object.
RetJson(body) == [t |-> "json", body |-> body, exc |-> NoErr]
RetNone == [t |-> "none", body |-> NoContent, exc |-> NoErr]
RetExc(e) == [t |-> "exc", body |-> NoContent, exc |-> e]

\* The JSON body of a request; a key the body lacks holds None.
NoPayload ==
    [service_id |-> "", state |-> <<>>, name |-> None, endpoints |-> NoList,
     description |-> None, notifications |-> NoList, scheduling |-> NoDict,
     qos_metrics |-> NoDict]

Request(method, base_url, path, id, payload) ==
    [method |-> method, base_url |-> base_url, path |-> path, id |-> id,
     payload |-> payload, timeout |-> TIMEOUT]

\* An operation's outcome if a request that ended in an exception were sent
\* a second time.
OutcomeRetried(self, e, r, q) ==
    [self |-> self, err |-> e, ret |-> r, reqs |-> IF Raised(e) THEN q \o q ELSE q]

\* An operation's outcome: the object afterwards, what was raised, what was
\* returned, and the HTTP requests issued.
Outcome(self, e, r, q) == [self |-> self, err |-> e, ret |-> r, reqs |-> q]

(***************************************************************************)
(* create_l2vpn and the request cache                                      *)
(***************************************************************************)
MSG_CREATE_TIMEOUT == "The request to create the L2VPN timed out."

\* The payload create_l2vpn builds: name, endpoints and each truthy optional attribute.
CreatePayload(self) ==
    [NoPayload EXCEPT
        !.name = self._name,
        !.endpoints = self._endpoints,
        !.description = IF Truthy(self._description) THEN self._description ELSE None,
        !.notifications =
            IF TruthyList(self._notifications) THEN self._notifications ELSE NoList,
        !.scheduling = IF TruthyDict(self._scheduling) THEN self._scheduling ELSE NoDict,
        !.qos_metrics = IF TruthyDict(self._qos_metrics) THEN self._qos_metrics ELSE NoDict]

\* cache_key made of the name and the whole endpoints, vlans included.
CacheKeyWithVlans(self) ==
    [name |-> self._name,
     port_ids |-> [i \in 1..Len(self._endpoints.items) |-> self._endpoints.items[i]]]

\* cache_key: (name, tuple of the endpoints' port_ids).
CacheKey(self) ==
    [name |-> self._name,
     port_ids |-> [i \in 1..Len(self._endpoints.items) |-> self._endpoints.items[i].port_id]]

\* What building the cache key raises: indexing a non-dictionary element, or a
\* dictionary without 'port_id' (the first such element decides).
CacheKeyErr(self) ==
    LET items == self._endpoints.items
        bad == {i \in 1..Len(items) : items[i].t # "dict" \/ ~items[i].has_port_id}
        first == CHOOSE i \in bad : \A j \in bad : i <= j
    IN  IF bad = {} THEN NoErr
        ELSE IF items[first].t # "dict" THEN Err("TypeError",
            "string indices must be integers", <<>>)
        ELSE Err("KeyError", "'port_id'", <<>>)

\* self._request_cache.get(cache_key)
CacheHas(cache, key) == \E e \in cache : e.key = key
CacheGet(cache, key) == CHOOSE e \in cache : e.key = key

\* self._request_cache[cache_key] = (payload, response_json)
CacheStore(self, key, payload, response_json) ==
    [self EXCEPT !._request_cache =
        {e \in @ : e.key # key}
        \cup {[key |-> key, payload |-> payload, result |-> response_json]}]

\* The try block of create_l2vpn, for each thing the POST can come back with.
CreateSend(self, resp) ==
    LET payload == CreatePayload(self)
        sent == <<Request("POST", self._base_url, "/l2vpn/" \o VERSION, "", payload)>>
    IN  IF resp.kind = "ok"
        THEN LET cached == CacheStore(self, CacheKey(self), payload, resp.body)
             IN  IF ~resp.body.has_service_id
                 THEN Outcome(cached, Err("KeyError", "'service_id'", <<>>), NoRet, sent)
                 ELSE Outcome(cached, NoErr, RetJson(resp.body), sent)
        ELSE IF resp.kind = "http_error"
        THEN Outcome(self,
                     SDXException(IntStatus(resp.status), "create",
                                  MessageOrUnknown("create", resp.status)),
                     NoRet, sent)
        ELSE IF resp.kind = "timeout"
        THEN Outcome(self,
                     SDXException(NoStatus, "none", Message(MSG_CREATE_TIMEOUT, <<>>)),
                     NoRet, sent)
        ELSE Outcome(self,
                     SDXException(NoStatus, "none",
                         Message("An error occurred while creating L2VPN: {}", <<resp.text>>)),
                     NoRet, sent)

\* create_l2vpn without the checks before the try block.
create_l2vpn_unchecked(self, resp) == CreateSend(self, resp)

\* SDXClient.create_l2vpn
create_l2vpn(self, resp) ==
    IF ~Truthy(self._base_url) \/ ~Truthy(self._name) \/ ~TruthyList(self._endpoints)
    THEN Outcome(self, Err("ValueError",
        "Creating L2VPN requires the base URL, name, and endpoints at minumum.", <<>>), NoRet, <<>>)
    ELSE IF self._endpoints.t # "list"
    THEN Outcome(self, Err("TypeError", MSG_ENDPOINTS_LIST, <<>>), NoRet, <<>>)
    ELSE IF Raised(CacheKeyErr(self))
    THEN Outcome(self, CacheKeyErr(self), NoRet, <<>>)
    ELSE IF CacheHas(self._request_cache, CacheKey(self))
    THEN Outcome(self, NoErr,
                 RetJson(CacheGet(self._request_cache, CacheKey(self)).result), <<>>)
    ELSE CreateSend(self, resp)

(***************************************************************************)
(* update_l2vpn, get_l2vpn, get_all_l2vpns, delete_l2vpn                   *)
(***************************************************************************)
MSG_NO_CAUSE == "__init__() got an unexpected keyword argument 'cause'"

UpperCase ==
    <<"A", "B", "C", "D", "E", "F", "G", "H", "I", "J", "K", "L", "M",
      "N", "O", "P", "Q", "R", "S", "T", "U", "V", "W", "X", "Y", "Z">>
LowerCase ==
    <<"a", "b", "c", "d", "e", "f", "g", "h", "i", "j", "k", "l", "m",
      "n", "o", "p", "q", "r", "s", "t", "u", "v", "w", "x", "y", "z">>

\* str.lower()
Lower(s) ==
    [i \in 1..Len(s) |->
        IF \E k \in 1..Len(UpperCase) : UpperCase[k] = s[i]
        THEN LowerCase[CHOOSE k \in 1..Len(UpperCase) : UpperCase[k] = s[i]]
        ELSE s[i]]

ENABLED_ == <<"e", "n", "a", "b", "l", "e", "d">>
DISABLED_ == <<"d", "i", "s", "a", "b", "l", "e", "d">>

\* The except clauses update_l2vpn, get_l2vpn and get_all_l2vpns share: the
\* table's message for an HTTP error; for a timeout and for any other transport
\* failure the text is passed to SDXException positionally.
CallFailed(self, table, failed_fmt, resp, sent) ==
    IF resp.kind = "http_error"
    THEN Outcome(self,
                 SDXException(IntStatus(resp.status), table,
                              MessageOrUnknown(table, resp.status)),
                 NoRet, sent)
    ELSE IF resp.kind = "timeout"
    THEN Outcome(self, SDXException(StrStatus(MSG_CREATE_TIMEOUT), "none", NoMessage),
                 NoRet, sent)
    ELSE Outcome(self, SDXException(StrStatus(failed_fmt \o resp.text), "none", NoMessage),
                 NoRet, sent)

\* update_l2vpn copying an optional parameter only when it is truthy, as
\* create_l2vpn copies the optional attributes.
update_l2vpn_truthy_only(self, service_id, state, patch, resp) ==
    LET payload ==
            [NoPayload EXCEPT
                !.service_id = service_id,
                !.state = IF state.t = "none" THEN <<>> ELSE Lower(state.s),
                !.name = IF Truthy(patch.name) THEN patch.name ELSE None,
                !.endpoints = IF TruthyList(patch.endpoints) THEN patch.endpoints ELSE NoList,
                !.description = IF Truthy(patch.description) THEN patch.description ELSE None,
                !.notifications =
                    IF TruthyList(patch.notifications) THEN patch.notifications ELSE NoList,
                !.scheduling = IF TruthyDict(patch.scheduling) THEN patch.scheduling ELSE NoDict,
                !.qos_metrics =
                    IF TruthyDict(patch.qos_metrics) THEN patch.qos_metrics ELSE NoDict]
        sent == <<Request("PATCH", self._base_url, "/l2vpn/" \o VERSION \o "/", service_id,
                          payload)>>
    IN  IF state.t # "none" /\ Lower(state.s) \notin {ENABLED_, DISABLED_}
        THEN Outcome(self, Err("ValueError",
            "Invalid state value. The 'state' attribute can only by changed to 'enabled' or 'disabled'.", <<>>), NoRet, <<>>)
        ELSE IF resp.kind = "ok"
        THEN Outcome(self, NoErr, RetJson(resp.body), sent)
        ELSE CallFailed(self, "update", "Failed to update L2VPN: ", resp, sent)

\* SDXClient.update_l2vpn: patch holds the optional parameters, None when not given.
update_l2vpn(self, service_id, state, patch, resp) ==
    LET payload ==
            [NoPayload EXCEPT
                !.service_id = service_id,
                !.state = IF state.t = "none" THEN <<>> ELSE Lower(state.s),
                !.name = patch.name,
                !.endpoints = patch.endpoints,
                !.description = patch.description,
                !.notifications = patch.notifications,
                !.scheduling = patch.scheduling,
                !.qos_metrics = patch.qos_metrics]
        sent == <<Request("PATCH", self._base_url, "/l2vpn/" \o VERSION \o "/", service_id,
                          payload)>>
    IN  IF state.t # "none" /\ Lower(state.s) \notin {ENABLED_, DISABLED_}
        THEN Outcome(self, Err("ValueError",
            "Invalid state value. The 'state' attribute can only by changed to 'enabled' or 'disabled'.", <<>>), NoRet, <<>>)
        ELSE IF resp.kind = "ok"
        THEN Outcome(self, NoErr, RetJson(resp.body), sent)
        ELSE CallFailed(self, "update", "Failed to update L2VPN: ", resp, sent)

\* get_l2vpn as it would be if a fetched service replaced the pending request.
get_l2vpn_loading(self, service_id, resp) ==
    LET sent == <<Request("GET", self._base_url, "/l2vpn/" \o VERSION \o "/", service_id,
                          NoPayload)>>
    IN  IF resp.kind = "ok"
        THEN Outcome([self EXCEPT !._name = None, !._endpoints = List(<<>>)],
                     NoErr, RetJson(resp.body), sent)
        ELSE CallFailed(self, "get", "Failed to retrieve L2VPN: ", resp, sent)

\* SDXClient.get_l2vpn
get_l2vpn(self, service_id, resp) ==
    LET sent == <<Request("GET", self._base_url, "/l2vpn/" \o VERSION \o "/", service_id,
                          NoPayload)>>
    IN  IF resp.kind = "ok"
        THEN Outcome(self, NoErr, RetJson(resp.body), sent)
        ELSE CallFailed(self, "get", "Failed to retrieve L2VPN: ", resp, sent)

\* SDXClient.get_all_l2vpns
get_all_l2vpns(self, archived, resp) ==
    LET sent == <<Request("GET", self._base_url,
                          IF archived THEN "/l2vpn/" \o VERSION \o "/archived"
                          ELSE "/l2vpn/" \o VERSION \o "/",
                          "", NoPayload)>>
    IN  IF resp.kind = "ok"
        THEN Outcome(self, NoErr, RetJson(resp.body), sent)
        ELSE CallFailed(self, "get_all", "Failed to retrieve L2VPN(s): ", resp, sent)

\* delete_l2vpn as it would be if deleting a service dropped the cached results.
delete_l2vpn_invalidating(self, service_id, resp) ==
    LET sent == <<Request("DELETE", self._base_url, "/l2vpn/" \o VERSION \o "/", service_id,
                          NoPayload)>>
    IN  IF resp.kind = "ok"
        THEN Outcome([self EXCEPT !._request_cache = {}], NoErr, RetNone, sent)
        ELSE Outcome(self, Err("TypeError", MSG_NO_CAUSE, <<>>), NoRet, sent)

\* SDXClient.delete_l2vpn: the HTTP-error message is the response's description
\* (response.json() raises on an empty body); a transport failure builds the
\* exception with a keyword the constructor does not take.
delete_l2vpn(self, service_id, resp) ==
    LET sent == <<Request("DELETE", self._base_url, "/l2vpn/" \o VERSION \o "/", service_id,
                          NoPayload)>>
    IN  IF resp.kind = "ok"
        THEN Outcome(self, NoErr,
                     IF resp.body.t # "none" THEN RetJson(resp.body) ELSE RetNone, sent)
        ELSE IF resp.kind = "http_error"
        THEN IF resp.body.t = "none"
             THEN Outcome(self, Err("JSONDecodeError", "Expecting value", <<>>), NoRet, sent)
             ELSE Outcome(self,
                          SDXException(IntStatus(resp.status), "delete",
                                       Message(IF resp.body.has_description
                                               THEN resp.body.description
                                               ELSE "Unknown error", <<>>)),
                          NoRet, sent)
        ELSE IF resp.kind = "timeout"
        THEN Outcome(self, SDXException(StrStatus(MSG_CREATE_TIMEOUT), "none", NoMessage),
                     NoRet, sent)
        ELSE Outcome(self, Err("TypeError", MSG_NO_CAUSE, <<>>), NoRet, sent)

(***************************************************************************)
(* What the operations log                                                 *)
(***************************************************************************)
\* A log record: through self._logger ("self") or through the logging module's
\* root logger ("module"), at a level, with the text's pattern.
Log(logger, level, fmt) == [logger |-> logger, level |-> level, fmt |-> fmt]

\* The records of the except clauses of update_l2vpn, get_l2vpn,
\* get_all_l2vpns and delete_l2vpn: self._logger.error for an HTTP error and
\* for a timeout, logging.error for any other transport failure.
FailureLogs(http_fmt, failed_fmt, resp) ==
    IF resp.kind = "http_error" THEN <<Log("self", "error", http_fmt)>>
    ELSE IF resp.kind = "timeout" THEN <<Log("self", "error", "Request timed out.")>>
    ELSE <<Log("module", "error", failed_fmt)>>

\* create_l2vpn: the payload at debug level before the cache is consulted;
\* the service_id at info level (formatting it raises for a body without
\* service_id); every failure through self._logger.
create_l2vpn_logs(self, resp) ==
    LET debug == <<Log("self", "debug", "Sending request to create L2VPN with payload: %s")>>
    IN  IF ~Truthy(self._base_url) \/ ~Truthy(self._name) \/ ~TruthyList(self._endpoints)
        THEN <<>>
        ELSE IF self._endpoints.t # "list" THEN <<>>
        ELSE IF Raised(CacheKeyErr(self)) \/ CacheHas(self._request_cache, CacheKey(self))
        THEN debug
        ELSE IF resp.kind = "ok"
        THEN IF resp.body.has_service_id
             THEN debug \o <<Log("self", "info", "L2VPN created successfully with service_id: {}")>>
             ELSE debug
        ELSE IF resp.kind = "http_error"
        THEN debug \o <<Log("self", "error", "Failed to create L2VPN. Status code: {}: {}")>>
        ELSE IF resp.kind = "timeout"
        THEN debug \o <<Log("self", "error", MSG_CREATE_TIMEOUT)>>
        ELSE debug \o <<Log("self", "error", "An error occurred while creating L2VPN: {}")>>

update_l2vpn_logs(state, resp) ==
    IF state.t # "none" /\ Lower(state.s) \notin {ENABLED_, DISABLED_} THEN <<>>
    ELSE IF resp.kind = "ok" THEN <<Log("self", "info", "L2VPN update request sent to {}.")>>
    ELSE FailureLogs("Failed to update L2VPN. Status code: {}: {}",
                     "Failed to update L2VPN: {}", resp)

get_l2vpn_logs(resp) ==
    IF resp.kind = "ok" THEN <<Log("self", "info", "L2VPN retrieval request sent to {}.")>>
    ELSE FailureLogs("Failed to retrieve L2VPN. Status code: {}: {}",
                     "Failed to retrieve L2VPN: {}", resp)

get_all_l2vpns_logs(resp) ==
    <<Log("self", "info", "Retrieving L2VPNs: URL={}")>>
    \o (IF resp.kind = "ok"
        THEN <<Log("self", "info", "L2VPN retrieval request sent to {}."),
               Log("self", "info", "Retrieved L2VPNs successfully: {}")>>
        ELSE FailureLogs("Failed to retrieve L2VPNs. Status code: {}: {}",
                         "Failed to retrieve L2VPN(s): {}", resp))

\* delete_l2vpn: response.json() of the HTTP-error clause comes before its log call.
delete_l2vpn_logs(resp) ==
    IF resp.kind = "ok" THEN <<Log("self", "info", "L2VPN deletion request sent to {}.")>>
    ELSE IF resp.kind = "http_error" /\ resp.body.t = "none" THEN <<>>
    ELSE FailureLogs("Failed to delete L2VPN. Status code: {}: {}",
                     "Failed to delete L2VPN: {}", resp)

(***************************************************************************)
(* The operations as steps                                                 *)
(***************************************************************************)
MaxCached == 2

\* History: the POSTs of client c for a cache key, counted from the first one
\* that got a 2xx response, with that response's body.
PostsAfter(c, key, q, resp) ==
    IF q = <<>> THEN posts
    ELSE IF \E h \in posts[c] : h.key = key
    THEN [posts EXCEPT ![c] =
            {IF h.key = key THEN [h EXCEPT !.n = @ + 1] ELSE h : h \in @}]
    ELSE IF resp.kind = "ok"
    THEN [posts EXCEPT ![c] = @ \cup {[key |-> key, n |-> 1, resp |-> resp.body]}]
    ELSE posts

\* A call as it would be with the class-level cache of the legacy client.py:
\* what one instance caches, every instance sees.
CallSharedCache(c, op, r) ==
    /\ clients' = [d \in ClientIds |->
                      IF d = c THEN r.self
                      ELSE [clients[d] EXCEPT !._request_cache = r.self._request_cache]]
    /\ last' = [op |-> op, c |-> c, err |-> r.err]
    /\ arg' = NoArgs
    /\ reqs' = r.reqs
    /\ ret' = r.ret

\* A CRUD call on client c with outcome r.
Call(c, op, r) ==
    /\ clients' = [clients EXCEPT ![c] = r.self]
    /\ last' = [op |-> op, c |-> c, err |-> r.err]
    /\ arg' = NoArgs
    /\ reqs' = r.reqs
    /\ ret' = r.ret

CreateL2vpn(c, resp) ==
    LET r == create_l2vpn(clients[c], resp)
    IN  /\ clients[c].alive
        /\ Cardinality(r.self._request_cache) <= MaxCached
        /\ Call(c, "create_l2vpn", r)
        /\ logs' = create_l2vpn_logs(clients[c], resp)
        /\ posts' = IF r.reqs = <<>> THEN posts
                    ELSE PostsAfter(c, CacheKey(clients[c]), r.reqs, resp)

UpdateL2vpn(c, service_id, state, patch, resp) ==
    /\ clients[c].alive
    /\ Call(c, "update_l2vpn", update_l2vpn(clients[c], service_id, state, patch, resp))
    /\ logs' = update_l2vpn_logs(state, resp)
    /\ UNCHANGED posts

GetL2vpn(c, service_id, resp) ==
    /\ clients[c].alive
    /\ Call(c, "get_l2vpn", get_l2vpn(clients[c], service_id, resp))
    /\ logs' = get_l2vpn_logs(resp)
    /\ UNCHANGED posts

GetAllL2vpns(c, archived, resp) ==
    /\ clients[c].alive
    /\ Call(c, "get_all_l2vpns", get_all_l2vpns(clients[c], archived, resp))
    /\ logs' = get_all_l2vpns_logs(resp)
    /\ UNCHANGED posts

DeleteL2vpn(c, service_id, resp) ==
    /\ clients[c].alive
    /\ Call(c, "delete_l2vpn", delete_l2vpn(clients[c], service_id, resp))
    /\ logs' = delete_l2vpn_logs(resp)
    /\ UNCHANGED posts

(***************************************************************************)
(* Values the steps draw from                                              *)
(***************************************************************************)
TEST_URL == PyStr(<<"h", "t", "t", "p", ":", "/", "/", "s", "d", "x">>)
TEST_NAME == PyStr(<<"T", "e", "s", "t", " ", "L", "2", "V", "P", "N">>)
OTHER_NAME == PyStr(<<"O", "t", "h", "e", "r">>)
LONG_NAME == PyStr(Rep("a", NAME_MAX + 1))
EMPTY_STR == PyStr(<<>>)
PORT_1 == PyStr(PORT_ID_PREFIX \o <<"o", ":", "n", ":", "p", "1">>)
PORT_2 == PyStr(PORT_ID_PREFIX \o <<"o", ":", "n", ":", "p", "2">>)
PORT_3 == PyStr(PORT_ID_PREFIX \o <<"o", ":", "n", ":", "p", "3">>)
V100 == PyStr(<<"1", "0", "0">>)
V200 == PyStr(<<"2", "0", "0">>)
VANY == PyStr(ANY)

\* TEST_ENDPOINTS, the same ports in the other order, and the same ports with
\* other vlans.
TEST_ENDPOINTS == List(<<Endpoint(PORT_1, V100), Endpoint(PORT_2, V200)>>)
SWAPPED_ENDPOINTS == List(<<Endpoint(PORT_2, V200), Endpoint(PORT_1, V100)>>)
REVLAN_ENDPOINTS == List(<<Endpoint(PORT_1, VANY), Endpoint(PORT_2, V200)>>)
ONE_ENDPOINT == List(<<Endpoint(PORT_1, V100)>>)

TEST_DESCRIPTION == PyStr(<<"T", "e", "s", "t">>)
LONG_DESCRIPTION == PyStr(Rep("x", DESCRIPTION_MAX + 1))
TEST_NOTIFICATIONS == List(<<Notification(PyStr(<<"u", "@", "e", ".", "c", "o", "m">>))>>)
TIME_10 == PyStr(<<"2", "0", "2", "4", "-", "0", "7", "-", "0", "5", "T", "1", "0", ":", "0", "0", ":", "0", "0", "Z">>)
TIME_18 == PyStr(<<"2", "0", "2", "4", "-", "0", "7", "-", "0", "5", "T", "1", "8", ":", "0", "0", ":", "0", "0", "Z">>)
TEST_SCHEDULING == Dict(<<[key |-> "end_time", value |-> TIME_18]>>)
BAD_SCHEDULING ==
    Dict(<<[key |-> "start_time", value |-> TIME_18], [key |-> "end_time", value |-> TIME_10]>>)
TEST_QOS == Dict(<<[key |-> "min_bw", value |-> MetricStrict(Num(5), Bool(FALSE))]>>)
BAD_QOS == Dict(<<[key |-> "min_bw", value |-> MetricStrict(Num(-10), Bool(FALSE))]>>)

\* create_client(...) of the tests: the fixture arguments, all options absent.
FixtureArgs ==
    [NoArgs EXCEPT !.base_url = TEST_URL, !.name = TEST_NAME, !.endpoints = TEST_ENDPOINTS]

\* The fixture arguments with one of them replaced.
OneOff(attr, values) == {[FixtureArgs EXCEPT ![attr] = v] : v \in values}

\* Constructor arguments of the lifecycle specification.
CtorArgs ==
    {FixtureArgs}
    \cup OneOff("name", {OTHER_NAME})
    \cup OneOff("endpoints", {SWAPPED_ENDPOINTS})

\* Values assigned in the lifecycle specification.
BaseUrlValues == {TEST_URL, None}
NameValues == {TEST_NAME, OTHER_NAME, EMPTY_STR}
EndpointsValues == {TEST_ENDPOINTS, SWAPPED_ENDPOINTS, REVLAN_ENDPOINTS, ONE_ENDPOINT}
DescriptionValues == {None, LONG_DESCRIPTION}
NotificationsValues == {NoList, NotAList}
SchedulingValues == {NoDict, BAD_SCHEDULING}
QosMetricsValues == {NoDict, BAD_QOS}

\* What the transport comes back with.
SERVICE_1 == "8344657b"

CreateResponses ==
    {Ok(201, Body(SERVICE_1)), Ok(200, BodyEmpty),
     HttpError(400, BodyEmpty), TimedOut, Failed("Connection error")}

Responses == {Ok(200, Body(SERVICE_1)), HttpError(404, BodyEmpty), TimedOut}

DeleteResponses ==
    {Ok(201, NoContent), HttpError(404, BodyDescription("Service ID not found")),
     Failed("Network error")}

NoPatch ==
    [name |-> None, endpoints |-> NoList, description |-> None,
     notifications |-> NoList, scheduling |-> NoDict, qos_metrics |-> NoDict]
NAME_PATCH == [NoPatch EXCEPT !.name = OTHER_NAME, !.endpoints = SWAPPED_ENDPOINTS]
STATE_ENABLED == PyStr(<<"E", "n", "a", "b", "l", "e", "d">>)
STATE_UP == PyStr(<<"u", "p">>)

\* update_l2vpn calls: the state, the optional parameters, the transport's answer.
Updates ==
    {[state |-> STATE_ENABLED, patch |-> NAME_PATCH, resp |-> Ok(200, Body(SERVICE_1))],
     [state |-> STATE_UP, patch |-> NoPatch, resp |-> Ok(200, Body(SERVICE_1))],
     [state |-> None, patch |-> NoPatch, resp |-> HttpError(404, BodyEmpty)]}

\* No value is drawn.
Consumed == [t |-> "consumed", items |-> <<>>]

\* A step that neither counts as an assignment nor uses a drawn value.
Idle == UNCHANGED <<steps, pending>>

Init ==
    /\ clients = [c \in ClientIds |-> NoClient]
    /\ last = [op |-> "", c |-> "", err |-> NoErr]
    /\ arg = NoArgs
    /\ reqs = <<>>
    /\ ret = NoRet
    /\ posts = [c \in ClientIds |-> {}]
    /\ logs = <<>>
    /\ steps = 0
    /\ pending = Consumed

\* One client: construction, the seven assignments, the five operations.
Next ==
    \/ \E a \in CtorArgs : Construct("A", a) /\ Idle
    \/ \E v \in BaseUrlValues : SetBaseUrl("A", v) /\ Idle
    \/ \E v \in NameValues : SetName("A", v) /\ Idle
    \/ \E v \in EndpointsValues : SetEndpoints("A", v) /\ Idle
    \/ \E v \in DescriptionValues : SetDescription("A", v) /\ Idle
    \/ \E v \in NotificationsValues : SetNotifications("A", v) /\ Idle
    \/ \E v \in SchedulingValues : SetScheduling("A", v) /\ Idle
    \/ \E v \in QosMetricsValues : SetQosMetrics("A", v) /\ Idle
    \/ \E resp \in CreateResponses : CreateL2vpn("A", resp) /\ Idle
    \/ \E u \in Updates :
          UpdateL2vpn("A", SERVICE_1, u.state, u.patch, u.resp) /\ Idle
    \/ \E resp \in Responses : GetL2vpn("A", SERVICE_1, resp) /\ Idle
    \/ \E archived \in BOOLEAN :
          GetAllL2vpns("A", archived, Ok(200, BodyEmpty)) /\ Idle
    \/ \E resp \in DeleteResponses : DeleteL2vpn("A", SERVICE_1, resp) /\ Idle

Spec == Init /\ [][Next]_vars

\* Two clients built from the same arguments: construction, a change of name,
\* create_l2vpn and delete_l2vpn on either.
NextTwo ==
    \/ \E c \in ClientIds : Construct(c, FixtureArgs) /\ Idle
    \/ \E c \in ClientIds, v \in {TEST_NAME, OTHER_NAME} : SetName(c, v) /\ Idle
    \/ \E c \in ClientIds, resp \in {Ok(201, Body(SERVICE_1)), TimedOut} :
          CreateL2vpn(c, resp) /\ Idle
    \/ \E c \in ClientIds :
          DeleteL2vpn(c, SERVICE_1, Ok(201, NoContent)) /\ Idle

SpecTwo == Init /\ [][NextTwo]_vars

(***************************************************************************)
(* The request cache                                                       *)
(***************************************************************************)
\* The key of the create_l2vpn call that has just been made.
LastKey == CacheKey(clients[last.c])
LastCreate(c) == last.op = "create_l2vpn" /\ last.c = c

\* C1: for each client and cache key, the create_l2vpn calls from the first
\* one that got a 2xx response issue exactly one POST between them, and every
\* one of them, the first included, returns the body of that response.
C1_OnePostSameResponse ==
    \A c \in ClientIds : \A h \in posts[c] :
        /\ h.n = 1
        /\ (LastCreate(c) /\ LastKey = h.key) => (~Raised(last.err) /\ ret = RetJson(h.resp))

\* C2: a step of any kind keeps every cache entry of every client as it is,
\* and create_l2vpn on a key that is cached returns the cached result without
\* a request.
C2_NeverInvalidated ==
    [][\A c \in ClientIds :
          /\ clients[c].alive =>
                \A e \in clients[c]._request_cache : e \in clients'[c]._request_cache
          /\ (last'.op = "create_l2vpn" /\ last'.c = c
                /\ CacheHas(clients[c]._request_cache, CacheKey(clients[c])))
             => /\ reqs' = <<>>
                /\ ~Raised(last'.err)
                /\ ret' = RetJson(CacheGet(clients[c]._request_cache,
                                           CacheKey(clients[c])).result)]_vars

\* delete_l2vpn has returned on a client that holds a cached result.
C2_Witness ==
    /\ last.op = "delete_l2vpn"
    /\ ~Raised(last.err)
    /\ ret = RetNone
    /\ clients["A"]._request_cache # {}
    /\ posts["A"] # {}

\* C3: create_l2vpn on one client leaves every other client as it was, its
\* cache included, and a create_l2vpn that issues no request and returns a
\* result was preceded by a POST of the same client for the same key.
C3_CacheOwned ==
    [][\A c \in ClientIds :
          (last'.op = "create_l2vpn" /\ last'.c = c)
          => /\ \A d \in ClientIds \ {c} : clients'[d] = clients[d]
             /\ (reqs' = <<>> /\ ~Raised(last'.err))
                => \E h \in posts[c] : h.key = CacheKey(clients[c])]_vars

\* B has issued its own POST for a key that A, built from the same arguments,
\* had cached before.
C3_Witness ==
    /\ LastCreate("B")
    /\ Len(reqs) = 1
    /\ ~Raised(last.err)
    /\ clients["A"].alive
    /\ CacheHas(clients["A"]._request_cache, LastKey)
    /\ clients["A"]._name = clients["B"]._name
    /\ clients["A"]._endpoints = clients["B"]._endpoints

\* C27: the cache of a client gains an entry only in a step that is a
\* create_l2vpn call of that client which returns its result; a create_l2vpn
\* call that raises leaves the cache as it was.
C27_CacheOnlyOnReturn ==
    [][\A c \in ClientIds :
          /\ (clients[c].alive /\ clients'[c].alive
                /\ clients'[c]._request_cache # clients[c]._request_cache)
             => /\ last'.op = "create_l2vpn" /\ last'.c = c
                /\ ~Raised(last'.err)
                /\ ret'.t = "json"
          /\ (last'.op = "create_l2vpn" /\ last'.c = c /\ Raised(last'.err)
                /\ clients[c].alive)
             => clients'[c]._request_cache = clients[c]._request_cache]_vars

\* The port_ids of a list of endpoints, in the order of the list.
PortIds(endpoints) == [i \in 1..Len(endpoints.items) |-> endpoints.items[i].port_id]

\* The client holds what create_l2vpn requires: base_url, name and a list of
\* endpoint dictionaries.
CanCreate(self) ==
    /\ self.alive
    /\ Truthy(self._base_url) /\ Truthy(self._name)
    /\ self._endpoints.t = "list" /\ self._endpoints.items # <<>>
    /\ \A i \in 1..Len(self._endpoints.items) :
          self._endpoints.items[i].t = "dict" /\ self._endpoints.items[i].has_port_id

\* The cache entries stored for a payload with the client's present name and
\* its present port_ids in their present order.
SameNameAndPorts(self) ==
    {e \in self._request_cache :
        /\ e.payload.name = self._name
        /\ PortIds(e.payload.endpoints) = PortIds(self._endpoints)}

MaxAssign == 1

BLANK == PyStr(<<" ">>)
FIVE == PyInt(<<"5">>)
BAD_PORT == PyStr(<<"u", "r", "n", ":", "s", "d", "x", ":", "o", ":", "n", ":", "p", "1">>)
V5000 == PyStr(<<"5", "0", "0", "0">>)
VALL == PyStr(ALL)
RANGE_1 == PyStr(<<"1", "0", "0", ":", "2", "0", "0">>)
MALFORMED_TIME == PyStr(<<"2", "0", "2", "4", "-", "0", "7", "-", "0", "5">>)

BaseUrlInputs == {TEST_URL, None, EMPTY_STR, BLANK, FIVE}
NameInputs == {TEST_NAME, None, EMPTY_STR, BLANK, PyStr(Rep("a", NAME_MAX)), LONG_NAME, FIVE}
EndpointsInputs ==
    {TEST_ENDPOINTS, REVLAN_ENDPOINTS, NoList, List(<<>>), ONE_ENDPOINT, NotAList,
     List(<<NotADict, Endpoint(PORT_2, V200)>>),
     List(<<Endpoint(BAD_PORT, V100), Endpoint(PORT_2, V200)>>),
     List(<<EndpointNoPort(V100), Endpoint(PORT_2, V200)>>),
     List(<<Endpoint(PORT_1, V100), EndpointNoVlan(PORT_2)>>),
     List(<<Endpoint(PORT_1, FIVE), Endpoint(PORT_2, V200)>>),
     List(<<Endpoint(PORT_1, V5000), Endpoint(PORT_2, V200)>>),
     List(<<Endpoint(PORT_1, VALL), Endpoint(PORT_2, VALL)>>),
     List(<<Endpoint(PORT_1, RANGE_1), Endpoint(PORT_2, V200)>>)}
DescriptionInputs ==
    {None, EMPTY_STR, TEST_DESCRIPTION, PyStr(Rep("x", DESCRIPTION_MAX)), LONG_DESCRIPTION, FIVE}
NotificationsInputs ==
    {NoList, List(<<>>), TEST_NOTIFICATIONS, NotAList,
     List([i \in 1..(NOTIFICATIONS_MAX + 1) |-> TEST_NOTIFICATIONS.items[1]]),
     List(<<NotANotification>>), List(<<NotificationNoEmail>>),
     List(<<Notification(PyStr(<<"u", "e">>))>>)}
SchedulingInputs ==
    {NoDict, Dict(<<>>), TEST_SCHEDULING, BAD_SCHEDULING, NotADictValue,
     Dict(<<[key |-> "start_time", value |-> TIME_10], [key |-> "end_time", value |-> TIME_18]>>),
     Dict(<<[key |-> "start_time", value |-> MALFORMED_TIME]>>)}
QosMetricsInputs ==
    {NoDict, Dict(<<>>), TEST_QOS, BAD_QOS, NotADictValue,
     Dict(<<[key |-> "max_delay", value |-> Metric(Num(MAX_DELAY_HIGH))]>>)}

\* The fixture with any one argument replaced by any value above.
AttrsCtorArgs ==
    OneOff("base_url", BaseUrlInputs) \cup OneOff("name", NameInputs)
    \cup OneOff("endpoints", EndpointsInputs) \cup OneOff("description", DescriptionInputs)
    \cup OneOff("notifications", NotificationsInputs)
    \cup OneOff("scheduling", SchedulingInputs) \cup OneOff("qos_metrics", QosMetricsInputs)

\* An assignment that counts towards MaxAssign.
Counted == steps < MaxAssign /\ steps' = steps + 1 /\ UNCHANGED pending

\* One client: construction, possibly one create_l2vpn, then assignments.
NextAttrs ==
    \/ \E a \in AttrsCtorArgs : Construct("A", a) /\ Idle
    \/ /\ steps = 0
       /\ clients["A"]._request_cache = {}
       /\ CreateL2vpn("A", Ok(201, Body(SERVICE_1)))
       /\ Idle
    \/ \E v \in BaseUrlInputs : SetBaseUrl("A", v) /\ Counted
    \/ \E v \in NameInputs : SetName("A", v) /\ Counted
    \/ \E v \in EndpointsInputs : SetEndpoints("A", v) /\ Counted
    \/ \E v \in DescriptionInputs : SetDescription("A", v) /\ Counted
    \/ \E v \in NotificationsInputs : SetNotifications("A", v) /\ Counted
    \/ \E v \in SchedulingInputs : SetScheduling("A", v) /\ Counted
    \/ \E v \in QosMetricsInputs : SetQosMetrics("A", v) /\ Counted

SpecAttrs == Init /\ [][NextAttrs]_vars

Attributes ==
    {"base_url", "name", "endpoints", "description", "notifications", "scheduling",
     "qos_metrics"}

\* The absent value of an attribute, and whether a value is empty (None, "",
\* [] or {}).
AbsentOf(attr) ==
    IF attr \in {"endpoints", "notifications"} THEN NoList
    ELSE IF attr \in {"scheduling", "qos_metrics"} THEN NoDict
    ELSE None
IsEmpty(attr, v) ==
    \/ v.t = "none"
    \/ attr \in {"endpoints", "notifications"} /\ v = List(<<>>)
    \/ attr \in {"scheduling", "qos_metrics"} /\ v = Dict(<<>>)
    \/ attr \in {"base_url", "name", "description"} /\ v = EMPTY_STR

\* The assignment client.<attr> = v on the object self.
SetterOf(attr, self, v) ==
    CASE attr = "base_url" -> base_url_setter(self, v)
      [] attr = "name" -> name_setter(self, v)
      [] attr = "endpoints" -> endpoints_setter(self, v)
      [] attr = "description" -> description_setter(self, v)
      [] attr = "notifications" -> notifications_setter(self, v)
      [] attr = "scheduling" -> scheduling_setter(self, v)
      [] attr = "qos_metrics" -> qos_metrics_setter(self, v)

\* C4: an assignment that raises leaves every client, attributes and cache,
\* as it was; an assignment that does not raise changes the assigned
\* attribute alone, to the value given or, for an empty value, to None.
C4_AssignmentAtomic ==
    [][last'.op = "set" =>
          LET c == last'.c
              attr == arg'.attr
              value == arg'[attr]
          IN  IF Raised(last'.err)
              THEN clients' = clients
              ELSE clients' =
                       [clients EXCEPT ![c]["_" \o attr] =
                           IF IsEmpty(attr, value) THEN AbsentOf(attr) ELSE value]]_vars

\* An assignment has raised on a client that holds a scheduling window and a
\* cached result.
C4_Witness ==
    /\ last.op = "set"
    /\ Raised(last.err)
    /\ arg.attr = "scheduling"
    /\ arg.scheduling = BAD_SCHEDULING
    /\ clients["A"]._scheduling = TEST_SCHEDULING
    /\ clients["A"]._request_cache # {}

\* C5: a constructor call whose endpoints, scheduling or qos_metrics argument
\* the assignment would reject raises what the assignment raises and leaves
\* no object.
C5_ConstructionValidates ==
    last.op = "__init__" =>
        \A attr \in {"endpoints", "scheduling", "qos_metrics"} :
            LET r == SetterOf(attr, NoClient, arg[attr])
            IN  Raised(r.err) => (last.err = r.err /\ ~clients[last.c].alive)

\* C6: after an empty description, notification list, scheduling object or
\* QoS map was supplied, to the constructor or in an assignment, and accepted,
\* the attribute reads None.
C6_EmptyIsAbsent ==
    \A attr \in {"description", "notifications", "scheduling", "qos_metrics"} :
        (/\ last.op \in {"__init__", "set"}
         /\ ~Raised(last.err)
         /\ arg.attr \in {"all", attr}
         /\ IsEmpty(attr, arg[attr]))
        => clients[last.c]["_" \o attr] = AbsentOf(attr)

\* C7: the payload of every POST create_l2vpn issues holds a list of at least
\* 2 endpoints that pass the endpoint validation, and a non-blank name of at
\* most 50 characters.
C7_PostedPayloadValid ==
    (last.op = "create_l2vpn" /\ reqs # <<>>) =>
        LET payload == reqs[1].payload
        IN  /\ payload.endpoints.t = "list"
            /\ Len(payload.endpoints.items) >= 2
            /\ ~Raised(_validate_endpoints(payload.endpoints))
            /\ payload.name.t = "str"
            /\ Strip(payload.name.s) # <<>>
            /\ Len(payload.name.s) <= 50

(***************************************************************************)
(* Assignments to endpoints                                                *)
(***************************************************************************)
MaxEndpoints == 3
MaxParts == 3

DigitChars == <<"1", "2", "3", "4", "5", "6", "7", "8", "9">>
Port(i) == PyStr(PORT_ID_PREFIX \o <<"o", ":", "n", ":", "p", DigitChars[i]>>)

RANGE_2 == PyStr(<<"3", "0", "0", ":", "4", "0", "0">>)
ValidVlans == {PyStr(ANY), VALL, PyStr(UNTAGGED), V100, RANGE_1, RANGE_2}

\* Lists of lo..hi endpoints with distinct well-formed ports and vlans from vs.
EndpointLists(lo, hi, vs) ==
    UNION {{List([i \in 1..n |-> Endpoint(Port(i), v[i])]) : v \in [1..n -> vs]} : n \in lo..hi}

\* Lists of MIN_ENDPOINTS..MaxEndpoints individually valid endpoints.
ValidLists == EndpointLists(MIN_ENDPOINTS, MaxEndpoints, ValidVlans)

\* Lists with fewer than MIN_ENDPOINTS entries, of every shape of element.
ShortLists ==
    EndpointLists(0, MIN_ENDPOINTS - 1, ValidVlans \cup {V5000})
    \cup {List(<<NotADict>>), List(<<EndpointNoPort(V100)>>), List(<<EndpointNoVlan(PORT_1)>>)}

\* Strings of 2..MaxParts parts joined by ':', each as the vlan of two endpoints.
RangeParts == {<<>>, <<"0">>, <<"1">>, <<"4", "0", "9", "5">>, <<"4", "0", "9", "6">>, <<"a">>}
RECURSIVE Joined(_)
Joined(n) ==
    IF n = 1 THEN RangeParts
    ELSE {s \o <<":">> \o part : s \in Joined(n - 1), part \in RangeParts}
RangeStrings == UNION {Joined(n) : n \in 2..MaxParts}
RangeLists ==
    {List(<<Endpoint(PORT_1, PyStr(s)), Endpoint(PORT_2, PyStr(s))>>) : s \in RangeStrings}

\* Lists of individually valid endpoints followed by one element that is not.
LateInvalidLists ==
    {List(Append(l.items, e)) :
        l \in EndpointLists(MIN_ENDPOINTS, MaxEndpoints - 1, ValidVlans),
        e \in {Endpoint(Port(MaxEndpoints), V5000), EndpointNoVlan(Port(MaxEndpoints)), NotADict}}

\* The client built from the fixture arguments, and a list drawn to be assigned.
InitEndpoints ==
    /\ clients = [c \in ClientIds |-> IF c = "A" THEN __init__(FixtureArgs).self ELSE NoClient]
    /\ last = [op |-> "__init__", c |-> "A", err |-> NoErr]
    /\ arg = [FixtureArgs EXCEPT !.attr = "all"]
    /\ reqs = <<>>
    /\ ret = NoRet
    /\ posts = [c \in ClientIds |-> {}]
    /\ logs = <<>>
    /\ steps = 0
    /\ pending \in ValidLists \cup ShortLists \cup RangeLists \cup LateInvalidLists

\* client.endpoints = <the list drawn>
AssignPending ==
    /\ pending # Consumed
    /\ SetEndpoints("A", pending)
    /\ pending' = Consumed
    /\ UNCHANGED steps

NextEndpoints ==
    \/ pending \in ValidLists /\ AssignPending
    \/ pending \in ShortLists /\ AssignPending
    \/ pending \in RangeLists /\ AssignPending
    \/ pending \in LateInvalidLists /\ AssignPending

SpecEndpoints == InitEndpoints /\ [][NextEndpoints]_vars

\* The assignment client.endpoints = <a list> has just been made.
EndpointsAssigned == last.op = "set" /\ arg.attr = "endpoints" /\ arg.endpoints.t = "list"
Assigned == arg.endpoints.items

\* C8: assigning a list of fewer than 2 entries raises ValueError "Endpoints
\* must contain at least 2 entries." and leaves the client as it was.
C8_ShortListRejected ==
    [][(last'.op = "set" /\ arg'.attr = "endpoints" /\ arg'.endpoints.t = "list"
          /\ Len(arg'.endpoints.items) < 2)
       => (last'.err = Err("ValueError", MSG_ENDPOINTS_MIN, <<>>) /\ clients' = clients)]_vars

IsRange(vlan) == vlan.t = "str" /\ Contains(vlan.s, ":")

\* The cross-endpoint rule: no vlan is "all" or every vlan is "all", and no
\* vlan is a range or every vlan is the identical range string.
VlanRule(items) ==
    /\ \/ \A i \in 1..Len(items) : items[i].vlan # VALL
       \/ \A i \in 1..Len(items) : items[i].vlan = VALL
    /\ \/ \A i \in 1..Len(items) : ~IsRange(items[i].vlan)
       \/ \A i \in 1..Len(items) : IsRange(items[i].vlan) /\ items[i].vlan = items[1].vlan

\* C9: assigning a list of 2 or more individually valid endpoints succeeds,
\* storing the list, exactly when the cross-endpoint rule holds; otherwise it
\* raises ValueError "All endpoints must have the same VLAN value if one
\* endpoint is 'all' or a range."
C9_VlanConsistency ==
    (/\ EndpointsAssigned
     /\ Len(Assigned) >= 2
     /\ \A i \in 1..Len(Assigned) : ~Raised(_validate_endpoint_dict(Assigned[i])))
    => IF VlanRule(Assigned)
       THEN ~Raised(last.err) /\ clients[last.c]._endpoints = arg.endpoints
       ELSE last.err = Err("ValueError", MSG_VLAN_SAME, <<>>)

\* Three valid endpoints, 'any' next to a range, were rejected.
C9_Witness ==
    /\ EndpointsAssigned
    /\ Len(Assigned) = 3
    /\ Assigned[1].vlan = PyStr(ANY)
    /\ Assigned[2].vlan = V100
    /\ Assigned[3].vlan = RANGE_1
    /\ last.err = Err("ValueError", MSG_VLAN_SAME, <<>>)

\* The parts of a vlan string are two integers with 1 <= ID1 < ID2 <= 4095.
TwoParts(s) == Len(Split(s, ":")) = 2
GoodBounds(s) ==
    LET id1 == ParseInt(Split(s, ":")[1])
        id2 == ParseInt(Split(s, ":")[2])
    IN  id1.ok /\ id2.ok /\ 1 <= id1.n /\ id1.n < id2.n /\ id2.n <= 4095

\* The first endpoint of the assigned list has a well-formed port and a string
\* vlan that contains ':'.
RangeAssigned ==
    /\ EndpointsAssigned
    /\ Len(Assigned) >= 2
    /\ Assigned[1].t = "dict"
    /\ Assigned[1].has_port_id
    /\ Assigned[1].port_id.t = "str"
    /\ PortIdMatches(Assigned[1].port_id.s)
    /\ Assigned[1].has_vlan
    /\ IsRange(Assigned[1].vlan)

\* C10 as stated: a vlan with ':' that has not exactly two parts, or whose two
\* parts are not integers with 1 <= ID1 < ID2 <= 4095, is rejected with
\* "Invalid VLAN range format: '<vlan>'. Must be 'VLAN ID1:VLAN ID2'."
C10_SingleMessage ==
    LET vlan == Assigned[1].vlan.s
    IN  (RangeAssigned /\ (~TwoParts(vlan) \/ ~GoodBounds(vlan)))
        => last.err = Err("ValueError", MSG_RANGE_FORMAT, vlan)

\* C10, amended: a vlan with ':' that has not exactly two parts is rejected
\* with "Invalid VLAN range values: '<vlan>'. Must be 'VLAN ID1:VLAN ID2'.";
\* one with exactly two parts that are not integers with
\* 1 <= ID1 < ID2 <= 4095 is rejected with "Invalid VLAN range format: ...".
C10_TwoMessages ==
    LET vlan == Assigned[1].vlan.s
    IN  RangeAssigned =>
            IF ~TwoParts(vlan) THEN last.err = Err("ValueError", MSG_RANGE_VALUES, vlan)
            ELSE IF ~GoodBounds(vlan) THEN last.err = Err("ValueError", MSG_RANGE_FORMAT, vlan)
            ELSE last.err.fmt \notin {MSG_RANGE_VALUES, MSG_RANGE_FORMAT}

\* A vlan of three integer parts was rejected with the "range values" message.
C10_Witness ==
    /\ RangeAssigned
    /\ Assigned[1].vlan.s = <<"1", ":", "1", ":", "4", "0", "9", "5">>
    /\ last.err = Err("ValueError", MSG_RANGE_VALUES, Assigned[1].vlan.s)

InvalidElementAssigned ==
    /\ EndpointsAssigned
    /\ Len(Assigned) >= 2
    /\ \E i \in 1..Len(Assigned) : Raised(_validate_endpoint_dict(Assigned[i]))

FirstInvalid ==
    CHOOSE i \in 1..Len(Assigned) :
        /\ Raised(_validate_endpoint_dict(Assigned[i]))
        /\ \A j \in 1..(i - 1) : ~Raised(_validate_endpoint_dict(Assigned[j]))

\* C28: every element passes single-endpoint validation before the
\* cross-endpoint rule is applied: assigning a list of 2 or more elements one
\* of which is individually invalid raises the error of the first such
\* element, also when earlier elements violate the cross-endpoint rule.
C28_ElementsBeforeConsistency ==
    InvalidElementAssigned => last.err = _validate_endpoint_dict(Assigned[FirstInvalid])

(***************************************************************************)
(* Assignments to name and notifications                                   *)
(***************************************************************************)
\* A string that is non-blank after trimming and at most 50 characters long.
GoodName(value) ==
    value.t = "str" /\ Strip(value.s) # <<>> /\ Len(value.s) <= 50

\* C11: client.name = value succeeds, and the name reads back as value,
\* exactly when value is a string that is non-blank after trimming and at most
\* 50 characters long; every other value (None, 123, "", 51 characters) raises
\* ValueError "Name must be a non-empty string with maximum 50 characters."
C11_NameRule ==
    (last.op = "set" /\ arg.attr = "name") =>
        IF GoodName(arg.name)
        THEN ~Raised(last.err) /\ clients[last.c]._name = arg.name
        ELSE last.err = Err("ValueError", MSG_NAME, <<>>)

\* The notifications a client may hold: None, or a list of at most 10
\* dictionaries whose email matches ^\S+@\S+$.
NotificationsHeld(n) ==
    \/ n.t = "none"
    \/ /\ n.t = "list"
       /\ Len(n.items) <= 10
       /\ \A i \in 1..Len(n.items) :
              /\ n.items[i].t = "dict"
              /\ n.items[i].has_email
              /\ is_valid_email(n.items[i].email)

\* A list of more than 10 notifications was given to the constructor or
\* assigned.
LongNotificationsGiven ==
    /\ last.op \in {"__init__", "set"}
    /\ arg.attr \in {"all", "notifications"}
    /\ arg.notifications.t = "list"
    /\ Len(arg.notifications.items) > 10

\* C12: whatever notifications the constructor was given and whatever was
\* assigned since, accepted or rejected, every client holds None or a list of
\* at most 10 dictionaries with a well-formed email; a list of 11 entries is
\* rejected with ValueError "Notifications can contain at most 10 email
\* addresses."
C12_NotificationsBounded ==
    /\ \A c \in ClientIds : clients[c].alive => NotificationsHeld(clients[c]._notifications)
    /\ LongNotificationsGiven =>
           last.err = Err("ValueError", "Notifications can contain at most 10 email addresses.", <<>>)

\* A list of 11 notifications was assigned to a client that holds
\* notifications, and rejected.
C12_Witness ==
    /\ last.op = "set"
    /\ LongNotificationsGiven
    /\ Raised(last.err)
    /\ clients["A"]._notifications = TEST_NOTIFICATIONS

(***************************************************************************)
(* Assignments to qos_metrics                                              *)
(***************************************************************************)
MaxMetrics == 2

QosKeys == {"min_bw", "max_delay", "max_number_oxps"}

\* The values around every bound, without strict; two of them with either
\* strict; and the two booleans (True is 1, False is 0).
BoundaryValues == {0 - 1, 0, 1, 100, 101, 1000, 1001}
MetricValues ==
    {Metric(Num(n)) : n \in BoundaryValues}
    \cup {MetricStrict(Num(n), Bool(b)) : n \in {0 - 1, 1}, b \in BOOLEAN}
    \cup {Metric(Bool(b)) : b \in BOOLEAN}

\* Maps of 1..MaxMetrics distinct metrics, in every order of insertion.
QosMaps ==
    UNION {{Dict([i \in 1..n |-> [key |-> k[i], value |-> v[i]]]) :
               k \in {f \in [1..n -> QosKeys] : \A i, j \in 1..n : f[i] = f[j] => i = j},
               v \in [1..n -> MetricValues]} :
           n \in 1..MaxMetrics}

\* Maps the validation rejects for their shape.
OddQosMaps ==
    {Dict(<<[key |-> "min_bw", value |-> MetricStrict(Num(5), NotANum)]>>),
     Dict(<<[key |-> "min_bw", value |-> Metric(NotANum)]>>),
     Dict(<<[key |-> "min_bw", value |-> MetricNoValue]>>),
     Dict(<<[key |-> "min_bw", value |-> NotAMetric]>>),
     Dict(<<[key |-> "jitter", value |-> Metric(Num(5))]>>)}

\* Every value of the map is within the bounds of its key.
InBounds(key, n) ==
    CASE key = "min_bw" -> 0 <= n /\ n <= 100
      [] key = "max_delay" -> 0 <= n /\ n <= 1000
      [] key = "max_number_oxps" -> 1 <= n /\ n <= 100
AllInBounds(q) == \A i \in 1..Len(q.entries) : InBounds(q.entries[i].key, q.entries[i].value.value.n)

InitQos ==
    /\ clients = [c \in ClientIds |-> IF c = "A" THEN __init__(FixtureArgs).self ELSE NoClient]
    /\ last = [op |-> "__init__", c |-> "A", err |-> NoErr]
    /\ arg = [FixtureArgs EXCEPT !.attr = "all"]
    /\ reqs = <<>>
    /\ ret = NoRet
    /\ posts = [c \in ClientIds |-> {}]
    /\ logs = <<>>
    /\ steps = 0
    /\ pending \in QosMaps \cup OddQosMaps

\* client.qos_metrics = <the map drawn>
AssignPendingQos ==
    /\ pending.t # "consumed"
    /\ SetQosMetrics("A", pending)
    /\ pending' = Consumed
    /\ UNCHANGED steps

NextQos ==
    \/ pending \in QosMaps /\ AllInBounds(pending) /\ AssignPendingQos
    \/ pending \in QosMaps /\ ~AllInBounds(pending) /\ AssignPendingQos
    \/ pending \in OddQosMaps /\ AssignPendingQos

SpecQos == InitQos /\ [][NextQos]_vars

\* client.qos_metrics = <a non-empty map of the three keys to dictionaries
\* with an integer value and, where strict is given, a boolean strict>
QosAssigned ==
    /\ last.op = "set"
    /\ arg.attr = "qos_metrics"
    /\ arg.qos_metrics.t = "dict"
    /\ arg.qos_metrics.entries # <<>>
    /\ \A i \in 1..Len(arg.qos_metrics.entries) :
           LET e == arg.qos_metrics.entries[i]
           IN  /\ e.key \in QosKeys
               /\ e.value.t = "dict"
               /\ e.value.has_value
               /\ e.value.value.t \in {"int", "bool"}
               /\ e.value.has_strict => e.value.strict.t = "bool"

STATE_LOWER == PyStr(ENABLED_)
STATE_DISABLED == PyStr(<<"D", "I", "S", "A", "B", "L", "E", "D">>)
SERVER_TEXT == "Server says no"

\* The statuses of the operations' tables and two that no table holds.
ErrorStatuses == {400, 401, 402, 404, 409, 410, 411, 418, 422, 500}

\* What the HTTP call can come back with: a 2xx response, an HTTP error with
\* any of three bodies, a timeout, another transport failure.
CallResponses ==
    {Ok(200, Body(SERVICE_1)), Ok(201, Body(SERVICE_1)), Ok(200, BodyEmpty), TimedOut,
     Failed("Connection error")}
    \cup {HttpError(n, body) :
             n \in ErrorStatuses, body \in {BodyEmpty, BodyDescription(SERVER_TEXT), NoContent}}

\* The state argument and the optional parameters of update_l2vpn, valid or not.
CallStates == {None, STATE_LOWER, STATE_ENABLED, STATE_DISABLED, STATE_UP, EMPTY_STR}
CallPatches ==
    [name : {None, OTHER_NAME, EMPTY_STR},
     endpoints : {NoList, List(<<>>), ONE_ENDPOINT},
     description : {None, LONG_DESCRIPTION},
     notifications : {NoList, NotAList},
     scheduling : {NoDict, BAD_SCHEDULING},
     qos_metrics : {NoDict, BAD_QOS}]

CallOf(op, state, patch, archived, resp) ==
    [op |-> op, service_id |-> SERVICE_1, state |-> state, patch |-> patch,
     archived |-> archived, resp |-> resp]

\* The calls drawn: every answer for every operation and, for update_l2vpn,
\* every state with every combination of optional parameters.
Calls ==
    {CallOf(op, None, NoPatch, FALSE, resp) :
        op \in {"create_l2vpn", "update_l2vpn", "get_l2vpn", "get_all_l2vpns", "delete_l2vpn"},
        resp \in CallResponses}
    \cup {CallOf("get_all_l2vpns", None, NoPatch, TRUE, resp) : resp \in CallResponses}
    \cup {CallOf("update_l2vpn", state, patch, FALSE, Ok(200, Body(SERVICE_1))) :
             state \in CallStates, patch \in CallPatches}
    \cup {CallOf("update_l2vpn", state, NoPatch, FALSE, resp) :
             state \in {STATE_ENABLED, STATE_UP}, resp \in CallResponses}

\* Clients as the constructor leaves them: the fixture, and the fixture with
\* base_url, name or endpoints missing or empty.
CallClients ==
    {__init__(a).self :
        a \in {FixtureArgs} \cup OneOff("base_url", {None, EMPTY_STR})
              \cup OneOff("name", {None, EMPTY_STR})
              \cup OneOff("endpoints", {NoList, List(<<>>)})}

InitCalls ==
    /\ pending \in Calls
    /\ \E self \in CallClients :
          /\ pending.op # "create_l2vpn" => self = __init__(FixtureArgs).self
          /\ clients = [c \in ClientIds |-> IF c = "A" THEN self ELSE NoClient]
    /\ last = [op |-> "__init__", c |-> "A", err |-> NoErr]
    /\ arg = NoArgs
    /\ reqs = <<>>
    /\ ret = NoRet
    /\ posts = [c \in ClientIds |-> {}]
    /\ logs = <<>>
    /\ steps = 0

\* Before the call drawn: a create_l2vpn that fills the cache, then an
\* assignment that leaves the client without endpoints or without name.
Before(n) == steps = n /\ steps' = n + 1 /\ UNCHANGED pending
\* The call drawn is the last step.
Drawn(op) == steps < 3 /\ pending.op = op /\ steps' = 3 /\ UNCHANGED pending

NextCalls ==
    \/ /\ pending.op \in {"create_l2vpn", "update_l2vpn"}
       /\ clients["A"]._request_cache = {}
       /\ CreateL2vpn("A", Ok(201, Body(SERVICE_1)))
       /\ Before(0)
    \/ pending.op = "create_l2vpn" /\ SetEndpoints("A", List(<<>>)) /\ Before(1)
    \/ pending.op = "create_l2vpn" /\ SetName("A", None) /\ Before(1)
    \/ CreateL2vpn("A", pending.resp) /\ Drawn("create_l2vpn")
    \/ UpdateL2vpn("A", pending.service_id, pending.state, pending.patch, pending.resp)
          /\ Drawn("update_l2vpn")
    \/ GetL2vpn("A", pending.service_id, pending.resp) /\ Drawn("get_l2vpn")
    \/ GetAllL2vpns("A", pending.archived, pending.resp) /\ Drawn("get_all_l2vpns")
    \/ DeleteL2vpn("A", pending.service_id, pending.resp) /\ Drawn("delete_l2vpn")

SpecCalls == InitCalls /\ [][NextCalls]_vars

\* The call drawn has just been made.
Called(op) == steps = 3 /\ pending.op = op /\ last.op = op

\* base_url, name or endpoints is None or empty.
MissingAttribute(self) ==
    \/ self._base_url \in {None, EMPTY_STR}
    \/ self._name \in {None, EMPTY_STR}
    \/ self._endpoints \in {NoList, List(<<>>)}

\* A state that is neither "enabled" nor "disabled" in any letter case.
InvalidState(state) == state.t = "str" /\ Lower(state.s) \notin {ENABLED_, DISABLED_}

\* The step raised, issued no HTTP request and left every client, cache
\* included, as it was.
RaisedBeforeRequest == Raised(last'.err) /\ reqs' = <<>> /\ clients' = clients

\* C15: create_l2vpn() on a client whose base_url, name or endpoints is
\* missing or empty, and update_l2vpn() with a state other than "enabled" or
\* "disabled" in any letter case, raise without issuing an HTTP request and
\* without changing the cache.
C15_ValidationBeforeRequest ==
    [][/\ (last'.op = "create_l2vpn" /\ MissingAttribute(clients[last'.c]))
          => RaisedBeforeRequest
       /\ (steps' = 3 /\ last'.op = "update_l2vpn" /\ InvalidState(pending.state))
          => RaisedBeforeRequest]_vars

\* create_l2vpn() raised on a client that holds a cached result and no
\* endpoints, although the transport would have answered.
C15_Witness ==
    /\ Called("create_l2vpn")
    /\ pending.resp.kind = "ok"
    /\ clients["A"]._endpoints = NoList
    /\ clients["A"]._request_cache # {}
    /\ Raised(last.err)
    /\ reqs = <<>>

\* The message of create_l2vpn's table for an HTTP error status.
CreateMessage(n) ==
    CASE n = 400 -> "Request does not have a valid JSON or body is incomplete/incorrect"
      [] n = 401 -> "Not Authorized"
      [] n = 402 -> "Request not compatible (e.g., P2MP L2VPN requested, but only P2P supported)"
      [] n = 409 -> "L2VPN Service already exists"
      [] n = 410 -> "Can't fulfill the strict QoS requirements"
      [] n = 411 -> "Scheduling not possible"
      [] n = 422 -> "Attribute not supported by the SDX-LC/OXPO"
      [] OTHER -> "Unknown error occurred."

\* The call drawn issued its HTTP request and the answer was an HTTP error.
HttpErrorReturned(op) == Called(op) /\ reqs # <<>> /\ pending.resp.kind = "http_error"

\* e is an SDXException with the given status code and message text.
IsSDXException(e, status, text) ==
    /\ e.type = "SDXException"
    /\ e.status = status
    /\ e.msg = "str"
    /\ e.fmt = text
    /\ e.arg = <<>>

\* C16: for every HTTP error status returned to create_l2vpn(), the call
\* raises an SDXException whose status_code is that status and whose message
\* is the create table's entry for 400, 401, 402, 409, 410, 411, 422 and
\* "Unknown error occurred." for every other status, whatever the body.
C16_CreateErrorTable ==
    HttpErrorReturned("create_l2vpn") =>
        IsSDXException(last.err, IntStatus(pending.resp.status),
                       CreateMessage(pending.resp.status))

\* A 500 response with a description in its body gave "Unknown error occurred."
C16_Witness ==
    /\ HttpErrorReturned("create_l2vpn")
    /\ pending.resp = HttpError(500, BodyDescription(SERVER_TEXT))
    /\ last.err.status = IntStatus(500)
    /\ last.err.fmt = "Unknown error occurred."

\* The call drawn issued its HTTP request, which failed as kind says.
TransportFailed(ops, kind) ==
    \E op \in ops : Called(op) /\ reqs # <<>> /\ pending.resp.kind = kind

\* C17: a timeout in update_l2vpn, get_l2vpn, get_all_l2vpns or delete_l2vpn
\* raises an SDXException shaped as create_l2vpn's: status_code None and a
\* non-empty message; a generic transport failure in update_l2vpn, get_l2vpn
\* or get_all_l2vpns raises an SDXException with status_code None and a
\* non-empty message that holds the underlying detail.
C17_TransportErrorShape ==
    /\ TransportFailed({"update_l2vpn", "get_l2vpn", "get_all_l2vpns", "delete_l2vpn"},
                       "timeout")
          => /\ last.err.type = "SDXException"
             /\ last.err.status = NoStatus
             /\ last.err.msg = "str"
             /\ last.err.fmt # ""
    /\ TransportFailed({"update_l2vpn", "get_l2vpn", "get_all_l2vpns"}, "error")
          => /\ last.err.type = "SDXException"
             /\ last.err.status = NoStatus
             /\ last.err.msg = "str"
             /\ last.err.fmt # ""
             /\ last.err.arg = <<pending.resp.text>>

\* C18: when the HTTP call of delete_l2vpn fails with a transport failure that
\* is neither an HTTP error status nor a timeout, delete_l2vpn raises an
\* SDXException; it returns nothing and raises no exception of another kind.
C18_DeleteFailureRaises ==
    TransportFailed({"delete_l2vpn"}, "error") =>
        (last.err.type = "SDXException" /\ ret = NoRet)

\* The message of delete_l2vpn for an HTTP error status and a response body.
DeleteMessage(n, body) ==
    CASE n = 401 -> "Not Authorized"
      [] n = 404 -> "L2VPN Service ID provided does not exist"
      [] OTHER -> IF body.has_description THEN body.description ELSE "Unknown error"

\* C19: for an HTTP error status returned to delete_l2vpn(), the SDXException
\* raised carries that status_code and the message "Not Authorized" for 401,
\* "L2VPN Service ID provided does not exist" for 404, whatever the body, and
\* for any other status the body's description if present, else "Unknown
\* error".
C19_DeleteErrorTable ==
    HttpErrorReturned("delete_l2vpn") =>
        IsSDXException(last.err, IntStatus(pending.resp.status),
                       DeleteMessage(pending.resp.status, pending.resp.body))

OptionalParameters ==
    {"name", "endpoints", "description", "notifications", "scheduling", "qos_metrics"}

\* C20: update_l2vpn with no state or a valid one issues one PATCH whose body
\* holds service_id; state, lowercased, exactly when state was given; and each
\* of name, endpoints, description, notifications, scheduling, qos_metrics
\* exactly when it was given (not None), as given. With no optional parameter
\* the body is {service_id} alone.
C20_PatchBody ==
    (Called("update_l2vpn") /\ ~InvalidState(pending.state)) =>
        /\ Len(reqs) = 1
        /\ reqs[1].method = "PATCH"
        /\ LET payload == reqs[1].payload
           IN  /\ payload.service_id = pending.service_id
               /\ IF pending.state.t = "none" THEN payload.state = <<>>
                  ELSE payload.state \in {ENABLED_, DISABLED_}
                       /\ payload.state = Lower(pending.state.s)
               /\ \A k \in OptionalParameters : payload[k] = pending.patch[k]
               /\ (pending.state.t = "none" /\ pending.patch = NoPatch)
                     => payload = [NoPayload EXCEPT !.service_id = pending.service_id]

\* A PATCH went out with state "DISABLED" lowercased, an empty name, an empty
\* list of endpoints and a QoS map the assignment would reject.
C20_Witness ==
    /\ Called("update_l2vpn")
    /\ pending.state = STATE_DISABLED
    /\ Len(reqs) = 1
    /\ reqs[1].payload.state = DISABLED_
    /\ reqs[1].payload.name = EMPTY_STR
    /\ reqs[1].payload.endpoints = List(<<>>)
    /\ reqs[1].payload.description = None
    /\ reqs[1].payload.qos_metrics = BAD_QOS

CrudOperations ==
    {"create_l2vpn", "update_l2vpn", "get_l2vpn", "get_all_l2vpns", "delete_l2vpn"}

\* The messages of the validation errors of the CRUD operations.
CrudValidationMessages ==
    {"Creating L2VPN requires the base URL, name, and endpoints at minumum.",
     "Endpoints must be a list.",
     "Invalid state value. The 'state' attribute can only by changed to 'enabled' or 'disabled'."}

\* C22: every call of a CRUD operation ends in a returned result, or in a
\* ValueError/TypeError with a documented message, or in an SDXException whose
\* status_code is None or an integer status and whose message is a string; no
\* other exception escapes, whatever the transport's answer.
C22_StructuredOutcome ==
    last.op \in CrudOperations =>
        \/ ~Raised(last.err) /\ ret # NoRet
        \/ /\ last.err.type \in {"ValueError", "TypeError"}
           /\ last.err.fmt \in CrudValidationMessages
           /\ ret = NoRet
        \/ /\ last.err.type = "SDXException"
           /\ last.err.status.t \in {"none", "int"}
           /\ last.err.msg = "str"
           /\ ret = NoRet

\* The call drawn issued its HTTP request and the request failed: an HTTP
\* error status, a timeout or another transport failure.
ServiceError ==
    /\ \E op \in CrudOperations : Called(op)
    /\ reqs # <<>>
    /\ pending.resp.kind \in {"http_error", "timeout", "error"}

\* C23: by the time a CRUD operation ends on a service error, one of the
\* records it emitted is at error level through the client's own logger; no
\* such failure is logged through the logging module's logger only.
C23_ErrorsLoggedByClient ==
    ServiceError =>
        \E i \in 1..Len(logs) : logs[i].logger = "self" /\ logs[i].level = "error"

\* The HTTP method each operation uses.
MethodOf(op) ==
    CASE op = "create_l2vpn" -> "POST"
      [] op = "update_l2vpn" -> "PATCH"
      [] op = "delete_l2vpn" -> "DELETE"
      [] OTHER -> "GET"

\* The number of requests a call is to issue: none when validation fails or
\* create_l2vpn finds its key cached, one otherwise.
RequestsDue(op, self, state) ==
    IF op = "create_l2vpn"
    THEN IF MissingAttribute(self) THEN 0
         ELSE IF CacheHas(self._request_cache, CacheKey(self)) THEN 0 ELSE 1
    ELSE IF op = "update_l2vpn" /\ InvalidState(state) THEN 0
    ELSE 1

\* C24: no operation retries. A call of update_l2vpn, get_l2vpn,
\* get_all_l2vpns or delete_l2vpn that passes validation issues exactly one
\* request, create_l2vpn issues one POST on a cache miss and none on a hit,
\* and a call whose request failed ends with that one request.
C24_NoRetry ==
    [][last'.op \in CrudOperations =>
          /\ Len(reqs') =
                RequestsDue(last'.op, clients[last'.c],
                            IF steps' = 3 THEN pending.state ELSE None)
          /\ \A i \in 1..Len(reqs') : reqs'[i].method = MethodOf(last'.op)]_vars

\* get_l2vpn ended on a timeout after one GET.
C24_Witness ==
    /\ Called("get_l2vpn")
    /\ pending.resp = TimedOut
    /\ Raised(last.err)
    /\ Len(reqs) = 1
    /\ reqs[1].method = "GET"

\* The attributes that make up the pending request.
RequestAttributes ==
    {"_base_url", "_name", "_endpoints", "_description", "_notifications", "_scheduling",
     "_qos_metrics"}

\* C30: a call of create_l2vpn, update_l2vpn, get_l2vpn, get_all_l2vpns or
\* delete_l2vpn, whether it returns or raises, leaves the client's base_url,
\* name, endpoints, description, notifications, scheduling and qos_metrics as
\* they were before the call.
C30_RequestUntouched ==
    [][\A c \in ClientIds :
          (last'.op \in CrudOperations /\ last'.c = c /\ clients[c].alive)
          => /\ clients'[c].alive
             /\ \A a \in RequestAttributes : clients'[c][a] = clients[c][a]]_vars

\* update_l2vpn(service_id, name=X, endpoints=Y) has returned and the client's
\* own name and endpoints are still those of the fixture.
C30_Witness ==
    /\ Called("update_l2vpn")
    /\ ~Raised(last.err)
    /\ Len(reqs) = 1
    /\ reqs[1].payload.name = pending.patch.name
    /\ pending.patch.name.t = "str"
    /\ pending.patch.name # clients["A"]._name
    /\ pending.patch.endpoints # clients["A"]._endpoints
    /\ clients["A"]._name = TEST_NAME
    /\ clients["A"]._endpoints = TEST_ENDPOINTS

(***************************************************************************)
(* SDXException(...) with every combination of arguments                   *)
(***************************************************************************)
\* status_code: None or a status; method_messages: None or an operation's
\* table; message: None, a text or the empty text.
ExceptionArgs ==
    [status_code : {NoStatus} \cup {IntStatus(n) : n \in ErrorStatuses \cup {200, 201}},
     method_messages : {"none", "create", "update", "get", "get_all", "delete"},
     message : {NoMessage, Message(SERVER_TEXT, <<>>), Message("", <<>>)}]

InitException ==
    /\ pending \in ExceptionArgs
    /\ clients = [c \in ClientIds |-> NoClient]
    /\ last = [op |-> "", c |-> "", err |-> NoErr]
    /\ arg = NoArgs
    /\ reqs = <<>>
    /\ ret = NoRet
    /\ posts = [c \in ClientIds |-> {}]
    /\ logs = <<>>
    /\ steps = 0

\* e = SDXException(status_code, method_messages, message)
NewException ==
    /\ steps = 0
    /\ last' = [op |-> "SDXException", c |-> "",
                err |-> SDXException(pending.status_code, pending.method_messages,
                                     pending.message)]
    /\ steps' = 1
    /\ UNCHANGED <<clients, arg, reqs, ret, posts, pending, logs>>

NextException ==
    \/ pending.message.t = "str" /\ NewException
    \/ pending.message.t = "none" /\ NewException

SpecException == InitException /\ [][NextException]_vars

\* The message the resolution rule gives: the message supplied; else the
\* table's entry for status_code when a table and a status_code were supplied
\* and the table holds the status; else the empty string.
ResolvedMessage(a) ==
    IF a.message.t = "str" THEN a.message
    ELSE IF /\ a.method_messages # "none"
            /\ a.status_code.t = "int"
            /\ MethodMessagesGet(a.method_messages, a.status_code).t = "str"
    THEN MethodMessagesGet(a.method_messages, a.status_code)
    ELSE Message("", <<>>)

\* C21: for every combination of status_code, method_messages and message,
\* present or absent, the exception's message is a string: the message
\* supplied, else the table's entry for status_code, else "".
C21_MessageResolution ==
    last.op = "SDXException" =>
        /\ last.err.msg = "str"
        /\ last.err.fmt = ResolvedMessage(pending).fmt
        /\ last.err.arg = ResolvedMessage(pending).arg

(***************************************************************************)
(* SDXResponse (src/sdxlib/sdx_response.py)                                *)
(***************************************************************************)
\* A JSON value of a service descriptor: a string, a list of strings, or None
\* for a key the object lacks.
JNone == [t |-> "none", v |-> "", items |-> <<>>]
JStr(v) == [t |-> "str", v |-> v, items |-> <<>>]
JList(items) == [t |-> "list", v |-> "", items |-> items]

ResponseFields ==
    {"service_id", "name", "endpoints", "description", "notifications", "qos_metrics",
     "ownership", "creation_date", "archived_date", "status", "state",
     "counters_location", "last_modified", "current_path", "oxp_service_ids"}

\* SDXResponse.__init__: response_json.get(key) for every field; response_json
\* is a function from the keys the object has to their values.
SDXResponse(response_json) ==
    [f \in ResponseFields |->
        IF f \in DOMAIN response_json THEN response_json[f] ELSE JNone]

\* SDXResponse.__eq__ as it would be if it compared the name as well.
__eq__with_name(self, other) ==
    /\ self.service_id = other.service_id
    /\ self.name = other.name
    /\ self.ownership = other.ownership
    /\ self.creation_date = other.creation_date
    /\ self.archived_date = other.archived_date
    /\ self.status = other.status
    /\ self.state = other.state
    /\ self.counters_location = other.counters_location
    /\ self.last_modified = other.last_modified
    /\ self.current_path = other.current_path
    /\ self.oxp_service_ids = other.oxp_service_ids

\* SDXResponse.__eq__
__eq__(self, other) ==
    /\ self.service_id = other.service_id
    /\ self.ownership = other.ownership
    /\ self.creation_date = other.creation_date
    /\ self.archived_date = other.archived_date
    /\ self.status = other.status
    /\ self.state = other.state
    /\ self.counters_location = other.counters_location
    /\ self.last_modified = other.last_modified
    /\ self.current_path = other.current_path
    /\ self.oxp_service_ids = other.oxp_service_ids

\* A full descriptor, as the control plane returns it.
TEST_RESPONSE ==
    [f \in ResponseFields |->
        CASE f = "service_id" -> JStr(SERVICE_1)
          [] f = "name" -> JStr("VLAN between AMPATH/300 and TENET/150")
          [] f = "endpoints" -> JList(<<"p1", "p2">>)
          [] f = "description" -> JStr("Example 1")
          [] f = "notifications" -> JList(<<"user@file.com">>)
          [] f = "qos_metrics" -> JStr("min_bw 5")
          [] f = "ownership" -> JStr("user1")
          [] f = "creation_date" -> JStr("20240522T00:00:00Z")
          [] f = "archived_date" -> JStr("0")
          [] f = "status" -> JStr("up")
          [] f = "state" -> JStr("enabled")
          [] f = "counters_location" -> JStr("https://my.aw-sdx.net/l2vpn/7cdf23e8978c")
          [] f = "last_modified" -> JStr("0")
          [] f = "current_path" -> JList(<<"urn:sdx:link:tenet.ac.za:LinkToAmpath">>)
          [] f = "oxp_service_ids" -> JList(<<"ampath.net", "tenet.ac.za">>)]

\* The other value each field takes.
OtherValue(f) ==
    CASE f \in {"endpoints", "notifications"} -> JList(<<>>)
      [] f = "current_path" -> JList(<<"urn:sdx:link:tenet.ac.za:LinkToSAX">>)
      [] f = "oxp_service_ids" -> JList(<<"tenet.ac.za", "ampath.net">>)
      [] f = "archived_date" -> JStr("20240601T00:00:00Z")
      [] f = "status" -> JStr("down")
      [] f = "state" -> JStr("disabled")
      [] OTHER -> JStr("Example 2")

\* The JSON objects parsed: the full descriptor, the descriptor with one field
\* changed, the descriptor without service_id, and the empty object.
ResponseJsons ==
    {TEST_RESPONSE}
    \cup {[TEST_RESPONSE EXCEPT ![f] = OtherValue(f)] : f \in ResponseFields}
    \cup {[f \in ResponseFields \ {"service_id"} |-> TEST_RESPONSE[f]],
          [f \in {} |-> JNone]}

InitResponses ==
    /\ pending \in [x : ResponseJsons, y : ResponseJsons, z : ResponseJsons]
    /\ clients = [c \in ClientIds |-> NoClient]
    /\ last = [op |-> "", c |-> "", err |-> NoErr]
    /\ arg = NoArgs
    /\ reqs = <<>>
    /\ ret = NoRet
    /\ posts = [c \in ClientIds |-> {}]
    /\ logs = <<>>
    /\ steps = 0

\* x, y, z = SDXResponse(...), ...; every comparison among them.
Compare ==
    /\ steps = 0
    /\ LET x == SDXResponse(pending.x)
           y == SDXResponse(pending.y)
           z == SDXResponse(pending.z)
       IN  ret' = [t |-> "eq", xx |-> __eq__(x, x), xy |-> __eq__(x, y),
                   yx |-> __eq__(y, x), yz |-> __eq__(y, z), xz |-> __eq__(x, z)]
    /\ last' = [op |-> "__eq__", c |-> "", err |-> NoErr]
    /\ steps' = 1
    /\ UNCHANGED <<clients, arg, reqs, posts, pending, logs>>

NextResponses ==
    \/ pending.x = pending.y /\ Compare
    \/ pending.x # pending.y /\ Compare

SpecResponses == InitResponses /\ [][NextResponses]_vars

IdentityFields ==
    {"service_id", "ownership", "creation_date", "archived_date", "status", "state",
     "counters_location", "last_modified", "current_path", "oxp_service_ids"}

\* The value a descriptor parsed from the object j reads for the field f.
FieldOf(j, f) == IF f \in DOMAIN j THEN j[f] ELSE JNone

\* C25: two service descriptors are equal exactly when their ten identity
\* fields agree, whatever their name, endpoints, description, notifications
\* and qos_metrics; equality is reflexive, symmetric and transitive.
C25_DescriptorEquality ==
    last.op = "__eq__" =>
        /\ ret.xy <=> \A f \in IdentityFields : FieldOf(pending.x, f) = FieldOf(pending.y, f)
        /\ ret.xx
        /\ ret.xy <=> ret.yx
        /\ (ret.xy /\ ret.yz) => ret.xz

\* Descriptors that differ in name, and in description, compared equal.
C25_Witness ==
    /\ last.op = "__eq__"
    /\ pending.x = TEST_RESPONSE
    /\ pending.y = [TEST_RESPONSE EXCEPT !.name = OtherValue("name")]
    /\ pending.z = [TEST_RESPONSE EXCEPT !.description = OtherValue("description")]
    /\ ret.xy
    /\ ret.yz
    /\ ret.xz

(***************************************************************************)
(* Assignments to scheduling                                               *)
(***************************************************************************)
\* Timestamps in the format YYYY-MM-DDTHH:mm:SSZ: every date with every time.
Dates == {<<"2", "0", "2", "3", "-", "1", "2", "-", "3", "1">>,
          <<"2", "0", "2", "4", "-", "0", "7", "-", "0", "5">>,
          <<"2", "0", "2", "4", "-", "1", "0", "-", "0", "1">>}
Clocks == {<<"0", "9", ":", "5", "9", ":", "5", "9">>, <<"1", "0", ":", "0", "0", ":", "0", "0">>,
           <<"1", "8", ":", "0", "0", ":", "0", "0">>}
Timestamps == {PyStr(d \o <<"T">> \o c \o <<"Z">>) : d \in Dates, c \in Clocks}

\* Scheduling objects with start_time, end_time or both, in either order of
\* insertion.
SchedulingMaps ==
    {Dict(<<[key |-> k, value |-> v]>>) : k \in {"start_time", "end_time"}, v \in Timestamps}
    \cup {Dict(<<[key |-> "start_time", value |-> a], [key |-> "end_time", value |-> b]>>) :
             a \in Timestamps, b \in Timestamps}
    \cup {Dict(<<[key |-> "end_time", value |-> b], [key |-> "start_time", value |-> a]>>) :
             a \in Timestamps, b \in Timestamps}

\* Scheduling objects the validation rejects for their shape.
OddSchedulingMaps ==
    {Dict(<<[key |-> "start_time", value |-> MALFORMED_TIME]>>),
     Dict(<<[key |-> "end_time", value |-> FIVE]>>),
     Dict(<<[key |-> "duration", value |-> TIME_10]>>)}

InitScheduling ==
    /\ clients = [c \in ClientIds |-> IF c = "A" THEN __init__(FixtureArgs).self ELSE NoClient]
    /\ last = [op |-> "__init__", c |-> "A", err |-> NoErr]
    /\ arg = [FixtureArgs EXCEPT !.attr = "all"]
    /\ reqs = <<>>
    /\ ret = NoRet
    /\ posts = [c \in ClientIds |-> {}]
    /\ logs = <<>>
    /\ steps = 0
    /\ pending \in SchedulingMaps \cup OddSchedulingMaps

\* client.scheduling = <the object drawn>
AssignPendingScheduling ==
    /\ pending.t # "consumed"
    /\ SetScheduling("A", pending)
    /\ pending' = Consumed
    /\ UNCHANGED steps

NextScheduling ==
    \/ pending \in SchedulingMaps /\ Len(pending.entries) = 1 /\ AssignPendingScheduling
    \/ pending \in SchedulingMaps /\ Len(pending.entries) = 2 /\ AssignPendingScheduling
    \/ pending \in OddSchedulingMaps /\ AssignPendingScheduling

SpecScheduling == InitScheduling /\ [][NextScheduling]_vars

\* The year, month, day, hour, minute and second of a timestamp, as numbers.
Chrono(s) ==
    <<DigitsToNat(SubSeq(s, 1, 4)), DigitsToNat(SubSeq(s, 6, 7)), DigitsToNat(SubSeq(s, 9, 10)),
      DigitsToNat(SubSeq(s, 12, 13)), DigitsToNat(SubSeq(s, 15, 16)),
      DigitsToNat(SubSeq(s, 18, 19))>>

\* The timestamp a is an earlier instant than b.
Earlier(a, b) ==
    \E i \in 1..6 :
        /\ Chrono(a)[i] < Chrono(b)[i]
        /\ \A j \in 1..(i - 1) : Chrono(a)[j] = Chrono(b)[j]

\* client.scheduling = <an object of start_time and/or end_time, each in the
\* timestamp format>
SchedulingAssigned ==
    /\ last.op = "set"
    /\ arg.attr = "scheduling"
    /\ arg.scheduling \in SchedulingMaps

\* C26: assigning a scheduling object with start_time and end_time in the
\* timestamp format succeeds, storing the object, if and only if end_time is a
\* later instant than start_time; equal times and an earlier end_time raise
\* ValueError "End time must be after start time."; an object with only one
\* of the two is accepted and reads back unchanged.
C26_EndAfterStart ==
    SchedulingAssigned =>
        LET given == arg.scheduling
            accepted == ~Raised(last.err) /\ clients[last.c]._scheduling = given
        IN  IF Len(given.entries) = 1 THEN accepted
            ELSE IF Earlier(Lookup(given, "start_time").s, Lookup(given, "end_time").s)
            THEN accepted
            ELSE /\ last.err = Err("ValueError", "End time must be after start time.", <<>>)
                 /\ clients[last.c]._scheduling = NoDict

\* Equal start_time and end_time were rejected.
C26_Witness ==
    /\ SchedulingAssigned
    /\ Len(arg.scheduling.entries) = 2
    /\ Lookup(arg.scheduling, "start_time") = TIME_10
    /\ Lookup(arg.scheduling, "end_time") = TIME_10
    /\ last.err = Err("ValueError", "End time must be after start time.", <<>>)
====
